---------------------------- MODULE Spec2Model ----------------------------
(***************************************************************************)
(* A model of the agentbrowser-pro command-line front end: the translation *)
(* of argument tokens into a command descriptor (commands.rs), the flag    *)
(* record (flags.rs), the daemon lifecycle manager and protocol client     *)
(* (connection.rs) and the dispatcher (main.rs).                           *)
(*                                                                         *)
(* Text supplied by the user is a sequence of one-character strings, so    *)
(* that prefix tests, lower-casing, number parsing and joining are         *)
(* computed character by character as the Rust code does.  Text that the   *)
(* program only produces (action names, usage strings) is a plain string.  *)
(***************************************************************************)
EXTENDS Integers, Sequences, FiniteSets, TLC

(***************************************************************************)
(* Literals of the source, as character sequences.                         *)
(***************************************************************************)
Lit(s) ==
  CASE s = "daemon" -> <<"d", "a", "e", "m", "o", "n">>
    [] s = "mcp" -> <<"m", "c", "p">>
    [] s = "launch" -> <<"l", "a", "u", "n", "c", "h">>
    [] s = "close" -> <<"c", "l", "o", "s", "e">>
    [] s = "navigate" -> <<"n", "a", "v", "i", "g", "a", "t", "e">>
    [] s = "open" -> <<"o", "p", "e", "n">>
    [] s = "goto" -> <<"g", "o", "t", "o">>
    [] s = "back" -> <<"b", "a", "c", "k">>
    [] s = "forward" -> <<"f", "o", "r", "w", "a", "r", "d">>
    [] s = "reload" -> <<"r", "e", "l", "o", "a", "d">>
    [] s = "refresh" -> <<"r", "e", "f", "r", "e", "s", "h">>
    [] s = "click" -> <<"c", "l", "i", "c", "k">>
    [] s = "dblclick" -> <<"d", "b", "l", "c", "l", "i", "c", "k">>
    [] s = "doubleclick" -> <<"d", "o", "u", "b", "l", "e", "c", "l", "i", "c", "k">>
    [] s = "type" -> <<"t", "y", "p", "e">>
    [] s = "fill" -> <<"f", "i", "l", "l">>
    [] s = "clear" -> <<"c", "l", "e", "a", "r">>
    [] s = "check" -> <<"c", "h", "e", "c", "k">>
    [] s = "uncheck" -> <<"u", "n", "c", "h", "e", "c", "k">>
    [] s = "select" -> <<"s", "e", "l", "e", "c", "t">>
    [] s = "hover" -> <<"h", "o", "v", "e", "r">>
    [] s = "focus" -> <<"f", "o", "c", "u", "s">>
    [] s = "press" -> <<"p", "r", "e", "s", "s">>
    [] s = "scroll" -> <<"s", "c", "r", "o", "l", "l">>
    [] s = "snapshot" -> <<"s", "n", "a", "p", "s", "h", "o", "t">>
    [] s = "screenshot" -> <<"s", "c", "r", "e", "e", "n", "s", "h", "o", "t">>
    [] s = "title" -> <<"t", "i", "t", "l", "e">>
    [] s = "gettitle" -> <<"g", "e", "t", "t", "i", "t", "l", "e">>
    [] s = "url" -> <<"u", "r", "l">>
    [] s = "geturl" -> <<"g", "e", "t", "u", "r", "l">>
    [] s = "text" -> <<"t", "e", "x", "t">>
    [] s = "gettext" -> <<"g", "e", "t", "t", "e", "x", "t">>
    [] s = "html" -> <<"h", "t", "m", "l">>
    [] s = "gethtml" -> <<"g", "e", "t", "h", "t", "m", "l">>
    [] s = "value" -> <<"v", "a", "l", "u", "e">>
    [] s = "getvalue" -> <<"g", "e", "t", "v", "a", "l", "u", "e">>
    [] s = "count" -> <<"c", "o", "u", "n", "t">>
    [] s = "getcount" -> <<"g", "e", "t", "c", "o", "u", "n", "t">>
    [] s = "visible" -> <<"v", "i", "s", "i", "b", "l", "e">>
    [] s = "isvisible" -> <<"i", "s", "v", "i", "s", "i", "b", "l", "e">>
    [] s = "enabled" -> <<"e", "n", "a", "b", "l", "e", "d">>
    [] s = "isenabled" -> <<"i", "s", "e", "n", "a", "b", "l", "e", "d">>
    [] s = "checked" -> <<"c", "h", "e", "c", "k", "e", "d">>
    [] s = "ischecked" -> <<"i", "s", "c", "h", "e", "c", "k", "e", "d">>
    [] s = "wait" -> <<"w", "a", "i", "t">>
    [] s = "frames" -> <<"f", "r", "a", "m", "e", "s">>
    [] s = "getframes" -> <<"g", "e", "t", "f", "r", "a", "m", "e", "s">>
    [] s = "frame" -> <<"f", "r", "a", "m", "e">>
    [] s = "switchtoframe" -> <<"s", "w", "i", "t", "c", "h", "t", "o", "f", "r", "a", "m", "e">>
    [] s = "mainframe" -> <<"m", "a", "i", "n", "f", "r", "a", "m", "e">>
    [] s = "pages" -> <<"p", "a", "g", "e", "s">>
    [] s = "getpages" -> <<"g", "e", "t", "p", "a", "g", "e", "s">>
    [] s = "newpage" -> <<"n", "e", "w", "p", "a", "g", "e">>
    [] s = "switchpage" -> <<"s", "w", "i", "t", "c", "h", "p", "a", "g", "e">>
    [] s = "closepage" -> <<"c", "l", "o", "s", "e", "p", "a", "g", "e">>
    [] s = "eval" -> <<"e", "v", "a", "l">>
    [] s = "evaluate" -> <<"e", "v", "a", "l", "u", "a", "t", "e">>
    [] s = "cookies" -> <<"c", "o", "o", "k", "i", "e", "s">>
    [] s = "getcookies" -> <<"g", "e", "t", "c", "o", "o", "k", "i", "e", "s">>
    [] s = "clearcookies" -> <<"c", "l", "e", "a", "r", "c", "o", "o", "k", "i", "e", "s">>
    [] s = "localstorage" -> <<"l", "o", "c", "a", "l", "s", "t", "o", "r", "a", "g", "e">>
    [] s = "getlocalstorage" -> <<"g", "e", "t", "l", "o", "c", "a", "l", "s", "t", "o", "r", "a", "g", "e">>
    [] s = "clearlocalstorage" -> <<"c", "l", "e", "a", "r", "l", "o", "c", "a", "l", "s", "t", "o", "r", "a", "g", "e">>
    [] s = "pdf" -> <<"p", "d", "f">>
    [] s = "stream" -> <<"s", "t", "r", "e", "a", "m">>
    [] s = "startstream" -> <<"s", "t", "a", "r", "t", "s", "t", "r", "e", "a", "m">>
    [] s = "stopstream" -> <<"s", "t", "o", "p", "s", "t", "r", "e", "a", "m">>
    [] s = "--help" -> <<"-", "-", "h", "e", "l", "p">>
    [] s = "-h" -> <<"-", "h">>
    [] s = "--version" -> <<"-", "-", "v", "e", "r", "s", "i", "o", "n">>
    [] s = "-v" -> <<"-", "v">>
    [] s = "--json" -> <<"-", "-", "j", "s", "o", "n">>
    [] s = "--headed" -> <<"-", "-", "h", "e", "a", "d", "e", "d">>
    [] s = "--session=" -> <<"-", "-", "s", "e", "s", "s", "i", "o", "n", "=">>
    [] s = "--executable-path=" -> <<"-", "-", "e", "x", "e", "c", "u", "t", "a", "b", "l", "e", "-", "p", "a", "t", "h", "=">>
    [] s = "--extensions=" -> <<"-", "-", "e", "x", "t", "e", "n", "s", "i", "o", "n", "s", "=">>
    [] s = "--timeout=" -> <<"-", "-", "t", "i", "m", "e", "o", "u", "t", "=">>
    [] s = "--full-page" -> <<"-", "-", "f", "u", "l", "l", "-", "p", "a", "g", "e">>
    [] s = "agentbrowser-pro-" -> <<"a", "g", "e", "n", "t", "b", "r", "o", "w", "s", "e", "r", "-", "p", "r", "o", "-">>
    [] s = ".sock" -> <<".", "s", "o", "c", "k">>
    [] s = ".pid" -> <<".", "p", "i", "d">>

(* Option<T>: None is the empty sequence, Some(v) the one-element sequence. *)
None == <<>>
Some(v) == <<v>>
IsSome(o) == o # <<>>

(* str::starts_with and str::strip_prefix *)
StartsWith(t, pre) == Len(t) >= Len(pre) /\ SubSeq(t, 1, Len(pre)) = pre
StripPrefix(t, pre) ==
  IF StartsWith(t, pre) THEN Some(SubSeq(t, Len(pre) + 1, Len(t))) ELSE None

(* char::to_lowercase on the ASCII letters; other characters are unchanged *)
LowerChar(c) ==
  CASE c = "A" -> "a" [] c = "B" -> "b" [] c = "C" -> "c" [] c = "D" -> "d"
    [] c = "E" -> "e" [] c = "F" -> "f" [] c = "G" -> "g" [] c = "H" -> "h"
    [] c = "I" -> "i" [] c = "J" -> "j" [] c = "K" -> "k" [] c = "L" -> "l"
    [] c = "M" -> "m" [] c = "N" -> "n" [] c = "O" -> "o" [] c = "P" -> "p"
    [] c = "Q" -> "q" [] c = "R" -> "r" [] c = "S" -> "s" [] c = "T" -> "t"
    [] c = "U" -> "u" [] c = "V" -> "v" [] c = "W" -> "w" [] c = "X" -> "x"
    [] c = "Y" -> "y" [] c = "Z" -> "z" [] OTHER -> c
(* A lowercase conversion that leaves the token as it is. *)
ToLowercase_Id(t) == t

ToLowercase(t) == [i \in 1..Len(t) |-> LowerChar(t[i])]

(* str::parse::<u64>: an optional '+', then one or more decimal digits and *)
(* nothing else.  The tokens that reach it in the model are short, so the  *)
(* value never reaches the overflow limit of the type.                     *)
Digits == <<"0", "1", "2", "3", "4", "5", "6", "7", "8", "9">>
IsDigit(c) == \E d \in 1..Len(Digits) : Digits[d] = c
DigitVal(c) == (CHOOSE d \in 1..Len(Digits) : Digits[d] = c) - 1
RECURSIVE DigitsValue(_)
DigitsValue(t) ==
  IF t = <<>> THEN 0
  ELSE DigitsValue(SubSeq(t, 1, Len(t) - 1)) * Len(Digits) + DigitVal(t[Len(t)])
ParseUnsigned(t) ==
  LET body == IF t # <<>> /\ t[1] = "+" THEN Tail(t) ELSE t
  IN  IF body # <<>> /\ \A i \in 1..Len(body) : IsDigit(body[i])
      THEN Some(DigitsValue(body)) ELSE None

(* A u32 is held as its decimal numeral: the digit values, most            *)
(* significant first, without leading zeros (the checker's integers stop   *)
(* short of 2^32 - 1).  U32Max is u32::MAX, 4294967295.                    *)
U32Max == <<4, 2, 9, 4, 9, 6, 7, 2, 9, 5>>
RECURSIVE StripZeros(_)
StripZeros(n) == IF Len(n) > 1 /\ n[1] = 0 THEN StripZeros(Tail(n)) ELSE n
NumLeq(a, b) ==
  \/ Len(a) < Len(b)
  \/ /\ Len(a) = Len(b)
     /\ \/ a = b
        \/ \E i \in 1..Len(a) : a[i] < b[i] /\ \A j \in 1..(i - 1) : a[j] = b[j]

(* str::parse::<u32>: an optional '+', then one or more decimal digits     *)
(* whose value is at most u32::MAX.                                        *)
ParseU32(t) ==
  LET body == IF t # <<>> /\ t[1] = "+" THEN Tail(t) ELSE t
  IN  IF body # <<>> /\ \A i \in 1..Len(body) : IsDigit(body[i])
      THEN LET n == StripZeros([i \in 1..Len(body) |-> DigitVal(body[i])])
           IN  IF NumLeq(n, U32Max) THEN Some(n) ELSE None
      ELSE None

(* u32::to_string *)
U32ToString(n) == [i \in 1..Len(n) |-> Digits[n[i] + 1]]

(* The decimal text of a process id *)
RECURSIVE ToDecimal(_)
ToDecimal(n) ==
  IF n < Len(Digits) THEN <<Digits[n + 1]>>
  ELSE ToDecimal(n \div Len(Digits)) \o <<Digits[(n % Len(Digits)) + 1]>>

(* A join that puts nothing between the pieces. *)
RECURSIVE Join_NoSpace(_)
Join_NoSpace(ts) == IF ts = <<>> THEN <<>> ELSE ts[1] \o Join_NoSpace(Tail(ts))

(* [String]::join(" ") *)
RECURSIVE Join(_)
Join(ts) ==
  IF ts = <<>> THEN <<>>
  ELSE IF Len(ts) = 1 THEN ts[1]
  ELSE ts[1] \o <<" ">> \o Join(Tail(ts))

(***************************************************************************)
(* flags.rs                                                                *)
(***************************************************************************)
DefaultSession == <<"d", "e", "f", "a", "u", "l", "t">>

(* The process environment read by Flags::parse: each variable is an Option. *)
NoEnv == [session |-> None, headed |-> None, executable_path |-> None]

RECURSIVE FlagsScan(_, _)
FlagsScan(args, flags) ==
  IF args = <<>> THEN flags
  ELSE LET arg == args[1]
           next ==
             IF arg = Lit("--json") THEN [flags EXCEPT !.json = TRUE]
             ELSE IF arg = Lit("--headed") THEN [flags EXCEPT !.headed = TRUE]
             ELSE IF IsSome(StripPrefix(arg, Lit("--session=")))
               THEN [flags EXCEPT !.session = StripPrefix(arg, Lit("--session="))[1]]
             ELSE IF IsSome(StripPrefix(arg, Lit("--executable-path=")))
               THEN [flags EXCEPT !.executable_path =
                                     Some(StripPrefix(arg, Lit("--executable-path="))[1])]
             ELSE IF IsSome(StripPrefix(arg, Lit("--extensions="))) THEN flags
             ELSE IF IsSome(StripPrefix(arg, Lit("--timeout=")))
               THEN [flags EXCEPT !.timeout =
                                     ParseUnsigned(StripPrefix(arg, Lit("--timeout="))[1])]
             ELSE flags
       IN  FlagsScan(Tail(args), next)

FlagsParse(args, env) ==
  LET f0 == [json |-> FALSE, session |-> DefaultSession, headed |-> FALSE,
             executable_path |-> None, timeout |-> None]
      f1 == FlagsScan(args, f0)
      f2 == IF f1.session = DefaultSession /\ IsSome(env.session)
            THEN [f1 EXCEPT !.session = env.session[1]] ELSE f1
      f3 == IF ~f2.headed
            THEN [f2 EXCEPT !.headed = IsSome(env.headed) /\ env.headed[1] = <<"1">>]
            ELSE f2
  IN  IF f3.executable_path = None
      THEN [f3 EXCEPT !.executable_path = env.executable_path] ELSE f3

(***************************************************************************)
(* commands.rs                                                             *)
(***************************************************************************)
CommandJsonNew(action) ==
  [id |-> "1", action |-> action, url |-> None, selector |-> None, text |-> None,
   value |-> None, key |-> None, path |-> None, interactive |-> None,
   full_page |-> None, timeout |-> None]

NoCmd == CommandJsonNew("")
NoErr == [kind |-> "none", context |-> "", usage |-> "", command |-> <<>>]
Ok(c) == [ok |-> TRUE, cmd |-> c, err |-> NoErr]
Err(e) == [ok |-> FALSE, cmd |-> NoCmd, err |-> e]
MissingArguments(context, usage) ==
  Err([kind |-> "MissingArguments", context |-> context, usage |-> usage,
       command |-> <<>>])
(* An unknown verb answered with a descriptor that has no action. *)
UnknownCommand_Empty(command) == Ok(CommandJsonNew(""))

UnknownCommand(command) ==
  Err([kind |-> "UnknownCommand", context |-> "", usage |-> "", command |-> command])

(* The timeout of a wait without argument *)
DefaultWaitMs == 1000

(* A one-selector arm that builds its descriptor without looking at the  *)
(* number of arguments.                                                   *)
SelectorTimeout_NoCheck(action, context, usage, rest, flags) ==
  Ok([CommandJsonNew(action) EXCEPT
        !.selector = IF rest = <<>> THEN None ELSE Some(rest[1]),
        !.timeout = flags.timeout])

(* The arms of parse_command that take one selector and the caller's timeout. *)
SelectorTimeout(action, context, usage, rest, flags) ==
  IF rest = <<>> THEN MissingArguments(context, usage)
  ELSE Ok([CommandJsonNew(action) EXCEPT !.selector = Some(rest[1]),
                                         !.timeout = flags.timeout])

(* The arms of parse_command that take one selector and no timeout. *)
SelectorOnly(action, context, usage, rest) ==
  IF rest = <<>> THEN MissingArguments(context, usage)
  ELSE Ok([CommandJsonNew(action) EXCEPT !.selector = Some(rest[1])])

(* A wait that takes every argument for a selector. *)
ParseWait_SelectorFirst(rest) ==
  IF rest # <<>>
  THEN Ok([CommandJsonNew("waitForSelector") EXCEPT !.selector = Some(rest[1])])
  ELSE Ok([CommandJsonNew("wait") EXCEPT !.timeout = Some(DefaultWaitMs)])

(* The "wait" arm of parse_command *)
ParseWait(rest) ==
  IF rest # <<>>
  THEN IF IsSome(ParseUnsigned(rest[1]))
       THEN Ok([CommandJsonNew("wait") EXCEPT !.timeout = ParseUnsigned(rest[1])])
       ELSE Ok([CommandJsonNew("waitForSelector") EXCEPT !.selector = Some(rest[1])])
  ELSE Ok([CommandJsonNew("wait") EXCEPT !.timeout = Some(DefaultWaitMs)])

(* A switchpage that also keeps a numeric argument as the url. *)
ParseSwitchPage_Both(rest) ==
  IF rest = <<>>
  THEN MissingArguments("switchpage", "switchpage <index|url|title>")
  ELSE Ok([CommandJsonNew("switchPage") EXCEPT
             !.value = IF IsSome(ParseU32(rest[1]))
                       THEN Some(U32ToString(ParseU32(rest[1])[1])) ELSE None,
             !.url = Some(rest[1])])

(* The "switchpage" arm of parse_command *)
ParseSwitchPage(rest) ==
  IF rest = <<>>
  THEN MissingArguments("switchpage", "switchpage <index|url|title>")
  ELSE IF IsSome(ParseU32(rest[1]))
       THEN Ok([CommandJsonNew("switchPage") EXCEPT
                  !.value = Some(U32ToString(ParseU32(rest[1])[1]))])
       ELSE Ok([CommandJsonNew("switchPage") EXCEPT !.url = Some(rest[1])])

ParseCommand(args, flags) ==
  IF args = <<>> THEN MissingArguments("command", "<command> [arguments]")
  ELSE
  LET command == ToLowercase(args[1])
      rest == Tail(args)
  IN
  CASE command = Lit("daemon") -> Ok(CommandJsonNew("daemon"))
    [] command = Lit("mcp") -> Ok(CommandJsonNew("mcp"))
    [] command = Lit("launch") ->
         Ok([CommandJsonNew("launch") EXCEPT !.timeout = flags.timeout])
    [] command = Lit("close") -> Ok(CommandJsonNew("close"))
    [] command \in {Lit("navigate"), Lit("open"), Lit("goto")} ->
         IF rest = <<>> THEN MissingArguments("navigate", "navigate <url>")
         ELSE Ok([CommandJsonNew("navigate") EXCEPT !.url = Some(rest[1]),
                                                    !.timeout = flags.timeout])
    [] command = Lit("back") -> Ok(CommandJsonNew("back"))
    [] command = Lit("forward") -> Ok(CommandJsonNew("forward"))
    [] command \in {Lit("reload"), Lit("refresh")} -> Ok(CommandJsonNew("reload"))
    [] command = Lit("click") ->
         SelectorTimeout("click", "click", "click <selector|ref>", rest, flags)
    [] command \in {Lit("dblclick"), Lit("doubleclick")} ->
         SelectorTimeout("dblclick", "dblclick", "dblclick <selector|ref>", rest, flags)
    [] command = Lit("type") ->
         IF Len(rest) < 2
         THEN MissingArguments("type", "type <selector|ref> <text>")
         ELSE Ok([CommandJsonNew("type") EXCEPT !.selector = Some(rest[1]),
                                                !.text = Some(Join(Tail(rest))),
                                                !.timeout = flags.timeout])
    [] command = Lit("fill") ->
         IF Len(rest) < 2
         THEN MissingArguments("fill", "fill <selector|ref> <value>")
         ELSE Ok([CommandJsonNew("fill") EXCEPT !.selector = Some(rest[1]),
                                                !.value = Some(Join(Tail(rest))),
                                                !.timeout = flags.timeout])
    [] command = Lit("clear") ->
         SelectorTimeout("clear", "clear", "clear <selector|ref>", rest, flags)
    [] command = Lit("check") ->
         SelectorTimeout("check", "check", "check <selector|ref>", rest, flags)
    [] command = Lit("uncheck") ->
         SelectorTimeout("uncheck", "uncheck", "uncheck <selector|ref>", rest, flags)
    [] command = Lit("select") ->
         IF Len(rest) < 2
         THEN MissingArguments("select", "select <selector|ref> <value|label|index>")
         ELSE Ok([CommandJsonNew("select") EXCEPT !.selector = Some(rest[1]),
                                                  !.value = Some(rest[2]),
                                                  !.timeout = flags.timeout])
    [] command = Lit("hover") ->
         SelectorTimeout("hover", "hover", "hover <selector|ref>", rest, flags)
    [] command = Lit("focus") ->
         SelectorTimeout("focus", "focus", "focus <selector|ref>", rest, flags)
    [] command = Lit("press") ->
         IF rest = <<>> THEN MissingArguments("press", "press <key> [selector]")
         ELSE Ok([CommandJsonNew("press") EXCEPT
                    !.key = Some(rest[1]),
                    !.selector = IF Len(rest) > 1 THEN Some(rest[2]) ELSE None,
                    !.timeout = flags.timeout])
    [] command = Lit("scroll") ->
         Ok([CommandJsonNew("scroll") EXCEPT
               !.selector = IF rest # <<>> THEN Some(rest[1]) ELSE None])
    [] command = Lit("snapshot") ->
         Ok([CommandJsonNew("snapshot") EXCEPT
               !.interactive = Some(TRUE),
               !.selector = IF rest # <<>> THEN Some(rest[1]) ELSE None])
    [] command = Lit("screenshot") ->
         Ok([CommandJsonNew("screenshot") EXCEPT
               !.path = IF rest # <<>> THEN Some(rest[1]) ELSE None,
               !.full_page = IF \E i \in 1..Len(args) : args[i] = Lit("--full-page")
                             THEN Some(TRUE) ELSE None,
               !.timeout = flags.timeout])
    [] command \in {Lit("title"), Lit("gettitle")} -> Ok(CommandJsonNew("getTitle"))
    [] command \in {Lit("url"), Lit("geturl")} -> Ok(CommandJsonNew("getUrl"))
    [] command \in {Lit("text"), Lit("gettext")} ->
         SelectorTimeout("getText", "text", "text <selector|ref>", rest, flags)
    [] command \in {Lit("html"), Lit("gethtml")} ->
         Ok([CommandJsonNew("getHtml") EXCEPT
               !.selector = IF rest # <<>> THEN Some(rest[1]) ELSE None])
    [] command \in {Lit("value"), Lit("getvalue")} ->
         SelectorTimeout("getValue", "value", "value <selector|ref>", rest, flags)
    [] command \in {Lit("count"), Lit("getcount")} ->
         SelectorOnly("getCount", "count", "count <selector>", rest)
    [] command \in {Lit("visible"), Lit("isvisible")} ->
         SelectorOnly("isVisible", "visible", "visible <selector|ref>", rest)
    [] command \in {Lit("enabled"), Lit("isenabled")} ->
         SelectorOnly("isEnabled", "enabled", "enabled <selector|ref>", rest)
    [] command \in {Lit("checked"), Lit("ischecked")} ->
         SelectorOnly("isChecked", "checked", "checked <selector|ref>", rest)
    [] command = Lit("wait") -> ParseWait(rest)
    [] command \in {Lit("frames"), Lit("getframes")} -> Ok(CommandJsonNew("getFrames"))
    [] command \in {Lit("frame"), Lit("switchtoframe")} ->
         SelectorOnly("switchToFrame", "frame", "frame <selector|name|url>", rest)
    [] command = Lit("mainframe") -> Ok(CommandJsonNew("switchToMainFrame"))
    [] command \in {Lit("pages"), Lit("getpages")} -> Ok(CommandJsonNew("getPages"))
    [] command = Lit("newpage") ->
         Ok([CommandJsonNew("newPage") EXCEPT
               !.url = IF rest # <<>> THEN Some(rest[1]) ELSE None])
    [] command = Lit("switchpage") -> ParseSwitchPage(rest)
    [] command = Lit("closepage") -> Ok(CommandJsonNew("closePage"))
    [] command \in {Lit("eval"), Lit("evaluate")} ->
         IF rest = <<>> THEN MissingArguments("eval", "eval <script>")
         ELSE Ok([CommandJsonNew("evaluate") EXCEPT !.text = Some(Join(rest))])
    [] command \in {Lit("cookies"), Lit("getcookies")} -> Ok(CommandJsonNew("getCookies"))
    [] command = Lit("clearcookies") -> Ok(CommandJsonNew("clearCookies"))
    [] command \in {Lit("localstorage"), Lit("getlocalstorage")} ->
         Ok([CommandJsonNew("getLocalStorage") EXCEPT
               !.key = IF rest # <<>> THEN Some(rest[1]) ELSE None])
    [] command = Lit("clearlocalstorage") -> Ok(CommandJsonNew("clearLocalStorage"))
    [] command = Lit("pdf") ->
         Ok([CommandJsonNew("pdf") EXCEPT
               !.path = IF rest # <<>> THEN Some(rest[1]) ELSE None])
    [] command \in {Lit("stream"), Lit("startstream")} -> Ok(CommandJsonNew("startStream"))
    [] command = Lit("stopstream") -> Ok(CommandJsonNew("stopStream"))
    [] OTHER -> UnknownCommand(command)

(* A serialization that writes every key, a null for an unset field. *)
ToJson_Nulls(cmd) ==
  << [key |-> "id", val |-> Some(cmd.id)], [key |-> "action", val |-> Some(cmd.action)],
     [key |-> "url", val |-> cmd.url], [key |-> "selector", val |-> cmd.selector],
     [key |-> "text", val |-> cmd.text], [key |-> "value", val |-> cmd.value],
     [key |-> "key", val |-> cmd.key], [key |-> "path", val |-> cmd.path],
     [key |-> "interactive", val |-> cmd.interactive],
     [key |-> "full_page", val |-> cmd.full_page],
     [key |-> "timeout", val |-> cmd.timeout] >>

(* CommandJson::to_json: the derived Serialize writes the fields in the    *)
(* order of the struct, each under the name of its field, and skips an     *)
(* Option that is None.  The JSON object is the sequence of its members;   *)
(* val is Some(v) for a value and None for a JSON null.                    *)
Member(k, o) == IF IsSome(o) THEN <<[key |-> k, val |-> o]>> ELSE <<>>
ToJson(cmd) ==
  << [key |-> "id", val |-> Some(cmd.id)], [key |-> "action", val |-> Some(cmd.action)] >>
    \o Member("url", cmd.url) \o Member("selector", cmd.selector)
    \o Member("text", cmd.text) \o Member("value", cmd.value)
    \o Member("key", cmd.key) \o Member("path", cmd.path)
    \o Member("interactive", cmd.interactive)
    \o Member("full_page", cmd.full_page)
    \o Member("timeout", cmd.timeout)

(* The worker's reading of a request, by the request schema: each key of   *)
(* the schema is looked up in the object; a key that is missing or null    *)
(* gives an absent field, and members under other keys are not looked at.  *)
Lookup(obj, k) ==
  IF \E i \in 1..Len(obj) : obj[i].key = k
  THEN obj[CHOOSE i \in 1..Len(obj) : obj[i].key = k].val
  ELSE None
FromJsonRequest(obj) ==
  [id |-> Lookup(obj, "id"), action |-> Lookup(obj, "action"),
   url |-> Lookup(obj, "url"), selector |-> Lookup(obj, "selector"),
   text |-> Lookup(obj, "text"), value |-> Lookup(obj, "value"),
   key |-> Lookup(obj, "key"), path |-> Lookup(obj, "path"),
   interactive |-> Lookup(obj, "interactive"), fullPage |-> Lookup(obj, "fullPage"),
   timeout |-> Lookup(obj, "timeout")]

(***************************************************************************)
(* main.rs: the argument filters of the dispatcher                         *)
(***************************************************************************)
CleanArgs(args) == SelectSeq(args, LAMBDA a : ~StartsWith(a, <<"-", "-">>) /\ ~StartsWith(a, <<"-">>))
HasHelp(args) == \E i \in 1..Len(args) : args[i] = Lit("--help") \/ args[i] = Lit("-h")
HasVersion(args) == \E i \in 1..Len(args) : args[i] = Lit("--version") \/ args[i] = Lit("-v")

(***************************************************************************)
(* connection.rs: the lifecycle files, the worker processes and the bounds *)
(***************************************************************************)
MaxAttempts == 50
SleepMs == 100
ProbeTimeoutSecs == 2
SendTimeoutSecs == 30

(* Bounds of the model: invocations started one after the other, and the   *)
(* most seconds of blocked probe time that are counted (the count          *)
(* saturates there).                                                       *)
MaxRuns == 2
BlockCap == 1

AllProcs == {1, 2}
Solo == {1}
Pids == 1..(MaxRuns + 1)
Alive == {"starting", "listening"}

VARIABLES
  cli,        \* per invocation: the dispatcher's position and locals
  workers,    \* per process id: "none", "starting", "listening" or "dead"
  pidFile,    \* the session's pid file: [exists, readable, content]
  sock,       \* the session's socket file: 0 if absent, else the pid that bound it
  freshSock,  \* invocations whose socket cleanup precedes the file's last creation
  freshPid,   \* invocations whose pid-file cleanup precedes the file's last write
  runs        \* invocations started so far

vars == <<cli, workers, pidFile, sock, freshSock, freshPid, runs>>

NoPidFile == [exists |-> FALSE, readable |-> FALSE, content |-> <<>>]
PidFileOf(content) == [exists |-> TRUE, readable |-> TRUE, content |-> content]
UnreadablePidFile == [exists |-> TRUE, readable |-> FALSE, content |-> <<>>]

(* str::trim on the white space the model's files hold *)
IsSpace(c) == c = " " \/ c = "\n"
RECURSIVE TrimStart(_)
TrimStart(t) == IF t # <<>> /\ IsSpace(t[1]) THEN TrimStart(Tail(t)) ELSE t
RECURSIVE TrimEnd(_)
TrimEnd(t) ==
  IF t # <<>> /\ IsSpace(t[Len(t)]) THEN TrimEnd(SubSeq(t, 1, Len(t) - 1)) ELSE t
Trim(t) == TrimEnd(TrimStart(t))

(* str::parse::<i32>: an optional sign, then one or more decimal digits *)
ParseSigned(t) ==
  LET neg == t # <<>> /\ t[1] = "-"
      body == IF t # <<>> /\ (t[1] = "-" \/ t[1] = "+") THEN Tail(t) ELSE t
  IN  IF body # <<>> /\ \A i \in 1..Len(body) : IsDigit(body[i])
      THEN Some(IF neg THEN 0 - DigitsValue(body) ELSE DigitsValue(body))
      ELSE None

(* libc::kill(pid, 0) == 0.  A positive pid names one process.  Pid 0      *)
(* names the caller's own process group, which always holds the caller.    *)
(* A negative pid names the process group -pid; every worker leads its own *)
(* group (setsid).  The broadcast pid -1 is outside the model's inputs.    *)
KillProbe(pid, ws) ==
  IF pid = 0 THEN TRUE
  ELSE IF pid > 0 THEN pid \in DOMAIN ws /\ ws[pid] \in Alive
  ELSE (0 - pid) \in DOMAIN ws /\ ws[0 - pid] \in Alive

IsDaemonRunning(pf, ws) ==
  IF ~pf.exists THEN FALSE
  ELSE IF ~pf.readable THEN FALSE
  ELSE IF IsSome(ParseSigned(Trim(pf.content)))
       THEN KillProbe(ParseSigned(Trim(pf.content))[1], ws)
       ELSE FALSE

(* UnixStream::connect: succeeds when the socket file exists and the       *)
(* process that bound it is listening.                                     *)
CanConnect(s, ws) == s # 0 /\ ws[s] = "listening"

(* The outcome of reader.read_line in is_daemon_ready, by what the peer    *)
(* did: Ok(_) is ready, Err(_) is not.                                     *)
ReadKinds == {"line", "partial_eof", "eof", "reset", "bad_utf8"}
ReadLineOk(kind) == kind \in {"line", "partial_eof", "eof"}

(* A find_daemon_path that returns the last existing candidate. *)
FindDaemonPath_Last(exe, up, c) ==
  IF ~exe THEN 0
  ELSE IF ~up THEN 0
  ELSE IF c[3] THEN 3
  ELSE IF c[2] THEN 2
  ELSE IF c[1] THEN 1
  ELSE 0

(* find_daemon_path of connection.rs: exe tells whether current_exe() and  *)
(* its parent resolve, up whether bin_dir has a parent, c which of the     *)
(* three candidates exist.  The result is the index of the candidate       *)
(* returned, 0 for None.                                                    *)
FindDaemonPath(exe, up, c) ==
  IF ~exe THEN 0
  ELSE IF ~up THEN 0
  ELSE IF c[1] THEN 1
  ELSE IF c[2] THEN 2
  ELSE IF c[3] THEN 3
  ELSE 0

(* A removal that leaves the file in place. *)
RemoveFile_Keep(file, absent, ok) == file

(* fs::remove_file(path).ok(): what is left of a file after the call *)
RemoveFile(file, absent, ok) == IF ok THEN absent ELSE file

NoCands == <<>>
Idle ==
  [pc |-> "idle", cmd |-> NoCmd, kind |-> "none", parsed |-> "none",
   attempt |-> 0, blocked |-> 0, quiet |-> 0, running |-> FALSE, ready |-> FALSE,
   probeKind |-> "none", ensure |-> "none", send |-> "none", exitCode |-> -1,
   trace |-> <<>>, spawns |-> 0, connected |-> FALSE, sent |-> 0,
   sockClean |-> "unset", pidClean |-> "unset", startedClean |-> FALSE,
   sawLive |-> FALSE, cands |-> NoCands, target |-> 0, launched |-> 0,
   sockSeen |-> FALSE, pidSeen |-> FALSE, sockFresh |-> FALSE, pidFresh |-> FALSE,
   respSuccess |-> FALSE, fg |-> 0, conn |-> 0, prevAlready |-> FALSE,
   readKind |-> "none", payload |-> None, reads |-> 0,
   inp |-> <<>>, res |-> <<>>, wire |-> <<>>, back |-> <<>>, resp |-> <<>>]

Set(p, rec) == cli' = [cli EXCEPT ![p] = rec]
Exit(rec, code) == [rec EXCEPT !.pc = "exited", !.exitCode = code]

(***************************************************************************)
(* The inputs of one invocation                                            *)
(***************************************************************************)
SelA == <<"#", "a">>
ArgSets ==
  { <<>>,
    <<Lit("--help")>>,
    <<Lit("click"), Lit("-h")>>,
    <<Lit("--version")>>,
    <<Lit("--json")>>,
    <<Lit("click")>>,
    <<<<"C", "l", "i", "c", "k">>, SelA>>,
    <<<<"b", "o", "g", "u", "s">>>>,
    <<Lit("click"), Lit("--json"), SelA>>,
    <<Lit("daemon")>>,
    <<Lit("mcp")>> }

(* The pid-file contents a session may start with: none, an unreadable     *)
(* file, a half-written (empty) file, text that is no number, "0", and the *)
(* id of the first worker followed by a newline.                           *)
InitPidFiles ==
  { NoPidFile, UnreadablePidFile, PidFileOf(<<>>), PidFileOf(<<"x">>),
    PidFileOf(<<"0">>), PidFileOf(<<"1", "\n">>) }

Init ==
  /\ cli = [p \in AllProcs |-> Idle]
  /\ workers \in {ws \in [Pids -> {"none", "starting", "listening", "dead"}] :
                    \A w \in Pids : w > 1 => ws[w] = "none"}
  /\ pidFile \in InitPidFiles
  /\ sock \in {s \in {0, 1} : s = 1 => workers[1] # "none"}
  /\ freshSock = AllProcs
  /\ freshPid = AllProcs
  /\ runs = 0

Min(a, b) == IF a < b THEN a ELSE b
FreePids == {w \in Pids : workers[w] = "none"}
NextPid == CHOOSE w \in FreePids : \A v \in FreePids : w <= v

(***************************************************************************)
(* The worker processes: opaque to the client, so every step is free.      *)
(***************************************************************************)
WorkerWritePid(w) ==
  /\ workers[w] \in Alive
  /\ pidFile # PidFileOf(ToDecimal(w))
  /\ pidFile' = PidFileOf(ToDecimal(w))
  /\ freshPid' = AllProcs
  /\ UNCHANGED <<cli, workers, sock, freshSock, runs>>

WorkerListen(w) ==
  /\ workers[w] = "starting"
  /\ workers' = [workers EXCEPT ![w] = "listening"]
  /\ sock' = w
  /\ freshSock' = AllProcs
  /\ UNCHANGED <<cli, pidFile, freshPid, runs>>

WorkerExit(w) ==
  /\ workers[w] \in Alive
  /\ workers' = [workers EXCEPT ![w] = "dead"]
  /\ UNCHANGED <<cli, pidFile, sock, freshSock, freshPid, runs>>

(***************************************************************************)
(* main.rs: main up to the call of ensure_daemon                           *)
(***************************************************************************)
(* A main that goes on to ensure_daemon after a parse failure. *)
MainParse_IgnoreError(args) ==
  LET flags == FlagsParse(args, NoEnv)
      clean == CleanArgs(args)
      r == ParseCommand(clean, flags)
  IN  IF HasHelp(args) \/ HasVersion(args) \/ clean = <<>>
      THEN Exit([Idle EXCEPT !.kind = "info"], 0)
      ELSE [Idle EXCEPT !.trace = <<"parse">>, !.kind = "command", !.pc = "ensure",
                        !.parsed = IF r.ok THEN "ok" ELSE "err", !.cmd = r.cmd]

(* kind: "info" for help, version and the empty command line, "special"  *)
(* for daemon and mcp, "command" for every other command line.            *)
MainParse(args) ==
  LET flags == FlagsParse(args, NoEnv)
      clean == CleanArgs(args)
      r == ParseCommand(clean, flags)
      parsed == [Idle EXCEPT !.trace = <<"parse">>, !.parsed = "ok"]
  IN  IF HasHelp(args) THEN Exit([Idle EXCEPT !.kind = "info"], 0)
      ELSE IF HasVersion(args) THEN Exit([Idle EXCEPT !.kind = "info"], 0)
      ELSE IF clean = <<>> THEN Exit([Idle EXCEPT !.kind = "info"], 0)
      ELSE IF ~r.ok
        THEN Exit([Idle EXCEPT !.trace = <<"parse", "error">>, !.parsed = "err",
                               !.kind = "command"], 1)
      ELSE IF r.cmd.action = "daemon"
        THEN [parsed EXCEPT !.kind = "special", !.pc = "start_daemon"]
      ELSE IF r.cmd.action = "mcp"
        THEN [parsed EXCEPT !.kind = "special", !.pc = "start_mcp"]
      ELSE [parsed EXCEPT !.kind = "command", !.pc = "ensure", !.cmd = r.cmd]

(* A new invocation starts once the one before it has ended.  prevAlready *)
(* remembers whether that one took the fast path of ensure_daemon.        *)
Main(p) ==
  /\ cli[p].pc \in {"idle", "exited"}
  /\ runs < MaxRuns
  /\ runs' = runs + 1
  /\ \E args \in ArgSets :
       Set(p, [MainParse(args) EXCEPT !.prevAlready = (cli[p].ensure = "already")])
  /\ UNCHANGED <<workers, pidFile, sock, freshSock, freshPid>>

(* find_daemon_path of main.rs: the three candidates, then the global      *)
(* installation under npm_config_prefix.                                   *)
MainFindDaemonPath(exe, up, c, npm) ==
  IF ~exe THEN 0
  ELSE IF ~up THEN 0
  ELSE IF c[1] THEN 1
  ELSE IF c[2] THEN 2
  ELSE IF c[3] THEN 3
  ELSE IF npm THEN 4
  ELSE 0

PanicCode == 101

(* start_daemon: the worker runs in the foreground of this invocation. *)
StartDaemon(p) ==
  /\ cli[p].pc = "start_daemon"
  /\ \E exe \in BOOLEAN, up \in BOOLEAN, c \in [1..3 -> BOOLEAN], npm \in BOOLEAN,
        ok \in BOOLEAN :
        IF MainFindDaemonPath(exe, up, c, npm) = 0 \/ ~ok \/ FreePids = {}
        THEN /\ Set(p, Exit(cli[p], PanicCode))
             /\ UNCHANGED workers
        ELSE /\ Set(p, [cli[p] EXCEPT !.pc = "foreground", !.fg = NextPid])
             /\ workers' = [workers EXCEPT ![NextPid] = "starting"]
  /\ UNCHANGED <<pidFile, sock, freshSock, freshPid, runs>>

ForegroundExit(p) ==
  /\ cli[p].pc = "foreground"
  /\ workers[cli[p].fg] = "dead"
  /\ \E code \in {0, 1} : Set(p, Exit([cli[p] EXCEPT !.fg = 0], code))
  /\ UNCHANGED <<workers, pidFile, sock, freshSock, freshPid, runs>>

(* start_mcp_server: another program runs in the foreground; it is not a   *)
(* worker of the session.                                                  *)
StartMcp(p) ==
  /\ cli[p].pc = "start_mcp"
  /\ \E code \in {0, 1, PanicCode} : Set(p, Exit(cli[p], code))
  /\ UNCHANGED <<workers, pidFile, sock, freshSock, freshPid, runs>>

(***************************************************************************)
(* connection.rs: ensure_daemon                                            *)
(***************************************************************************)
(* The pid file holds the decimal id of a process that is alive. *)
PidFileNamesLive ==
  /\ pidFile.exists /\ pidFile.readable
  /\ \E w \in Pids : workers[w] \in Alive /\ Trim(pidFile.content) = ToDecimal(w)

(* ensure_daemon, lines 129-130: the left operand of the && *)
CheckRunning(p) ==
  /\ cli[p].pc = "ensure"
  /\ LET running == IsDaemonRunning(pidFile, workers)
     IN  Set(p, [cli[p] EXCEPT
                   !.pc = IF running THEN "connect" ELSE "clean_sock",
                   !.running = running,
                   !.trace = Append(@, "ensure"),
                   !.startedClean = ~pidFile.exists /\ sock = 0,
                   !.sawLive = PidFileNamesLive])
  /\ UNCHANGED <<workers, pidFile, sock, freshSock, freshPid, runs>>

(* An ensure_daemon without the fast path: the first check always goes on *)
(* to the cleanup.                                                        *)
AfterProbe_NoFastPath(rec, ready, kind) ==
  LET r == [rec EXCEPT !.ready = ready, !.probeKind = kind, !.quiet = 0,
                          !.conn = 0]
  IN  IF rec.attempt = 0 THEN [r EXCEPT !.pc = "clean_sock"]
      ELSE IF ready THEN [r EXCEPT !.pc = "send_connect", !.ensure = "started"]
      ELSE IF rec.attempt < MaxAttempts
        THEN [r EXCEPT !.pc = "sleep", !.probeKind = "none"]
      ELSE Exit([r EXCEPT !.ensure = "timeout", !.trace = Append(@, "error")], 1)

(* A poll loop that does not return at the first successful probe: it     *)
(* returns only when the attempts are used up.                            *)
AfterProbe_KeepPolling(rec, ready, kind) ==
  LET r == [rec EXCEPT !.ready = ready, !.probeKind = kind, !.quiet = 0,
                          !.conn = 0]
  IN  IF rec.attempt = 0
      THEN IF ready THEN [r EXCEPT !.pc = "send_connect", !.ensure = "already"]
           ELSE [r EXCEPT !.pc = "clean_sock"]
      ELSE IF rec.attempt < MaxAttempts THEN [r EXCEPT !.pc = "sleep"]
      ELSE IF ready THEN [r EXCEPT !.pc = "send_connect", !.ensure = "started"]
      ELSE Exit([r EXCEPT !.ensure = "timeout", !.trace = Append(@, "error")], 1)

(* What ensure_daemon does with the answer of is_daemon_ready: in the      *)
(* first check (no poll made yet) and in the poll loop.                    *)
AfterProbe(rec, ready, kind) ==
  LET r == [rec EXCEPT !.ready = ready, !.probeKind = kind, !.quiet = 0,
                          !.conn = 0]
  IN  IF rec.attempt = 0
      THEN IF ready THEN [r EXCEPT !.pc = "send_connect", !.ensure = "already"]
           ELSE [r EXCEPT !.pc = "clean_sock"]
      ELSE IF ready THEN [r EXCEPT !.pc = "send_connect", !.ensure = "started"]
      ELSE IF rec.attempt < MaxAttempts
        THEN [r EXCEPT !.pc = "sleep", !.probeKind = "none"]
      ELSE Exit([r EXCEPT !.ensure = "timeout", !.trace = Append(@, "error")], 1)

(* is_daemon_ready: connect and write the ping *)
ProbeConnect(p) ==
  /\ cli[p].pc = "connect"
  /\ LET rec == [cli[p] EXCEPT !.connected = TRUE]
     IN  IF CanConnect(sock, workers)
         THEN \E written \in BOOLEAN :
                IF written
                THEN Set(p, [rec EXCEPT !.pc = "reading", !.quiet = 0, !.conn = sock])
                ELSE Set(p, AfterProbe(rec, FALSE, "write_err"))
         ELSE Set(p, AfterProbe(rec, FALSE, "connect_err"))
  /\ UNCHANGED <<workers, pidFile, sock, freshSock, freshPid, runs>>

(* is_daemon_ready: read_line returns *)
ProbeRead(p) ==
  /\ cli[p].pc = "reading"
  /\ \E kind \in ReadKinds : Set(p, AfterProbe(cli[p], ReadLineOk(kind), kind))
  /\ UNCHANGED <<workers, pidFile, sock, freshSock, freshPid, runs>>

(* The peer, while it lives, sends bytes that hold no newline: the blocked *)
(* read is served and read_line reads again, with a fresh timeout.         *)
ProbeDrip(p) ==
  /\ cli[p].pc = "reading"
  /\ workers[cli[p].conn] \in Alive
  /\ cli[p].quiet > 0
  /\ Set(p, [cli[p] EXCEPT !.quiet = 0])
  /\ UNCHANGED <<workers, pidFile, sock, freshSock, freshPid, runs>>

(* One second passes in a blocked read; after the spawn it counts as time  *)
(* waited by ensure_daemon.                                                *)
ProbeWait(p) ==
  /\ cli[p].pc = "reading"
  /\ cli[p].quiet < ProbeTimeoutSecs
  /\ Set(p, [cli[p] EXCEPT
               !.quiet = @ + 1,
               !.blocked = IF cli[p].attempt > 0 THEN Min(@ + 1, BlockCap) ELSE @])
  /\ UNCHANGED <<workers, pidFile, sock, freshSock, freshPid, runs>>

(* The read timeout of the probe: read_line returns Err *)
ProbeTimeout(p) ==
  /\ cli[p].pc = "reading"
  /\ cli[p].quiet = ProbeTimeoutSecs
  /\ Set(p, AfterProbe(cli[p], FALSE, "timeout"))
  /\ UNCHANGED <<workers, pidFile, sock, freshSock, freshPid, runs>>

(* ensure_daemon, lines 136-140 *)
CleanSock(p) ==
  /\ cli[p].pc = "clean_sock"
  /\ IF sock # 0
     THEN \E ok \in BOOLEAN :
            /\ sock' = RemoveFile(sock, 0, ok)
            /\ Set(p, [cli[p] EXCEPT !.pc = "clean_pid", !.probeKind = "none",
                                     !.running = FALSE, !.sawLive = FALSE,
                                     !.sockClean = IF ok THEN "removed" ELSE "failed"])
     ELSE /\ sock' = sock
          /\ Set(p, [cli[p] EXCEPT !.pc = "clean_pid", !.probeKind = "none",
                                   !.running = FALSE, !.sawLive = FALSE,
                                   !.sockClean = "absent"])
  /\ freshSock' = freshSock \ {p}
  /\ UNCHANGED <<workers, pidFile, freshPid, runs>>

(* An ensure_daemon that leaves the pid file where it is. *)
CleanPid_Skip(p) ==
  /\ cli[p].pc = "clean_pid"
  /\ Set(p, [cli[p] EXCEPT !.pc = "find",
                           !.pidClean = IF pidFile.exists THEN "removed" ELSE "absent"])
  /\ freshPid' = freshPid \ {p}
  /\ UNCHANGED <<workers, pidFile, sock, freshSock, runs>>

(* ensure_daemon, lines 142-145 *)
CleanPid(p) ==
  /\ cli[p].pc = "clean_pid"
  /\ IF pidFile.exists
     THEN \E ok \in BOOLEAN :
            /\ pidFile' = RemoveFile(pidFile, NoPidFile, ok)
            /\ Set(p, [cli[p] EXCEPT !.pc = "find",
                                     !.pidClean = IF ok THEN "removed" ELSE "failed"])
     ELSE /\ pidFile' = pidFile
          /\ Set(p, [cli[p] EXCEPT !.pc = "find", !.pidClean = "absent"])
  /\ freshPid' = freshPid \ {p}
  /\ UNCHANGED <<workers, sock, freshSock, runs>>

(* ensure_daemon, lines 147-149 *)
FindDaemon(p) ==
  /\ cli[p].pc = "find"
  /\ \E exe \in BOOLEAN, up \in BOOLEAN, c \in [1..3 -> BOOLEAN] :
       LET rec == [cli[p] EXCEPT !.cands = <<[exe |-> exe, up |-> up, c |-> c]>>,
                                 !.target = FindDaemonPath(exe, up, c)]
       IN  IF rec.target = 0
           THEN /\ Set(p, Exit([rec EXCEPT !.ensure = "notfound",
                                           !.trace = Append(@, "error")], 1))
                /\ freshSock' = freshSock \cup {p}
                /\ freshPid' = freshPid \cup {p}
           ELSE /\ Set(p, [rec EXCEPT !.pc = "spawn"])
                /\ UNCHANGED <<freshSock, freshPid>>
  /\ UNCHANGED <<workers, pidFile, sock, runs>>

(***************************************************************************)
(* Two invocations against one session.  ensure_daemon takes no lock and   *)
(* reads no state of another invocation; each invocation is followed from  *)
(* its start to its spawn.                                                 *)
(***************************************************************************)
(* An ensure_daemon that spawns only while no other invocation is between  *)
(* its own liveness check and the end of its poll.                         *)
Spawn_Exclusive(p) ==
  /\ cli[p].pc = "spawn"
  /\ \A q \in AllProcs \ {p} : cli[q].pc \in {"idle", "exited"}
  /\ workers' = [workers EXCEPT ![NextPid] = "starting"]
  /\ Set(p, [cli[p] EXCEPT !.pc = "sleep", !.spawns = @ + 1])
  /\ UNCHANGED <<pidFile, sock, freshSock, freshPid, runs>>

(* ensure_daemon, lines 151-179: the child is started and its handle is    *)
(* dropped.                                                                *)
Spawn(p) ==
  /\ cli[p].pc = "spawn"
  /\ \E ok \in BOOLEAN :
       IF ok /\ FreePids # {}
       THEN /\ workers' = [workers EXCEPT ![NextPid] = "starting"]
            /\ Set(p, [cli[p] EXCEPT !.pc = "sleep", !.attempt = 0, !.blocked = 0,
                                     !.spawns = @ + 1, !.launched = cli[p].target,
                                     !.sockSeen = sock # 0,
                                     !.pidSeen = pidFile.exists,
                                     !.sockFresh = p \in freshSock,
                                     !.pidFresh = p \in freshPid])
            /\ UNCHANGED <<freshSock, freshPid>>
       ELSE /\ UNCHANGED workers
            /\ Set(p, Exit([cli[p] EXCEPT !.ensure = "spawnfail",
                                          !.trace = Append(@, "error")], 1))
            /\ freshSock' = freshSock \cup {p}
            /\ freshPid' = freshPid \cup {p}
  /\ UNCHANGED <<pidFile, sock, runs>>

(* ensure_daemon, lines 182-183: one turn of the loop starts with a sleep *)
Sleep(p) ==
  /\ cli[p].pc = "sleep"
  /\ Set(p, [cli[p] EXCEPT !.pc = "connect", !.attempt = @ + 1, !.probeKind = "none",
                           !.cands = NoCands, !.target = 0, !.launched = 0,
                           !.sockClean = "unset", !.pidClean = "unset",
                           !.sockSeen = FALSE, !.pidSeen = FALSE,
                           !.sockFresh = FALSE, !.pidFresh = FALSE])
  /\ freshSock' = freshSock \cup {p}
  /\ freshPid' = freshPid \cup {p}
  /\ UNCHANGED <<workers, pidFile, sock, runs>>

(* Milliseconds ensure_daemon has waited since the spawn: its sleeps and   *)
(* the seconds its probes were blocked (counted up to BlockCap).           *)
Elapsed(rec) == rec.attempt * SleepMs + rec.blocked * 1000

(***************************************************************************)
(* connection.rs: send_command, and the end of main                        *)
(***************************************************************************)
(* The response line, by what serde_json::from_str::<Response> makes of    *)
(* it.  A well-formed response has the two required members, id and        *)
(* success; result and error are optional members.  The request's id is    *)
(* "1".                                                                    *)
ResponseIds == {"1", "2"}
Payloads ==
  { [wellFormed |-> FALSE, success |-> FALSE, id |-> "", result |-> None,
     error |-> None] }
  \cup [wellFormed : {TRUE}, success : BOOLEAN, id : ResponseIds,
        result : {None, Some("r")}, error : {None, Some("e")}]

(* A decoder that accepts a response only if it answers the request and     *)
(* carries a result exactly when it succeeded and an error exactly when it  *)
(* failed.                                                                  *)
FromStrResponse_Strict(payload) ==
  IF /\ payload.wellFormed /\ payload.id = "1"
     /\ IsSome(payload.result) = payload.success
     /\ IsSome(payload.error) = ~payload.success
  THEN Some([id |-> payload.id, success |-> payload.success,
             result |-> payload.result, error |-> payload.error])
  ELSE None

(* serde_json::from_str::<Response>: the four members of the struct are    *)
(* taken as they are; nothing relates one to another or to the request.    *)
FromStrResponse(payload) ==
  IF payload.wellFormed
  THEN Some([id |-> payload.id, success |-> payload.success,
             result |-> payload.result, error |-> payload.error])
  ELSE None

(* send_command, lines 196-211 *)
SendConnect(p) ==
  /\ cli[p].pc = "send_connect"
  /\ LET rec == [cli[p] EXCEPT !.connected = TRUE, !.trace = Append(@, "send"),
                               !.attempt = 0, !.blocked = 0, !.probeKind = "none",
                               !.quiet = 0, !.running = FALSE, !.sawLive = FALSE,
                               !.ready = FALSE]
     IN  IF CanConnect(sock, workers)
         THEN \E written \in BOOLEAN :
                IF written
                THEN Set(p, [rec EXCEPT !.pc = "send_read", !.sent = @ + 1,
                                        !.conn = sock])
                ELSE Set(p, Exit([rec EXCEPT !.send = "write_err",
                                             !.trace = Append(@, "error")], 1))
         ELSE Set(p, Exit([rec EXCEPT !.send = "connect_err",
                                      !.trace = Append(@, "error")], 1))
  /\ UNCHANGED <<workers, pidFile, sock, freshSock, freshPid, runs>>

(* A send_command that turns a response with success = false into a        *)
(* failure.                                                                *)
SendOutcome_AppErrorIsFailure(kind, payload) ==
  IF ~ReadLineOk(kind) THEN "read_err"
  ELSE IF kind = "eof" \/ ~payload.wellFormed \/ ~payload.success THEN "parse_err"
  ELSE "ok"

(* send_command, lines 216-221: what becomes of the read.  An Err of       *)
(* read_line is "Failed to read response"; whatever read_line left in the  *)
(* buffer, be it nothing (end of stream) or a line without its newline,    *)
(* goes to serde_json::from_str, whose Err is "Failed to parse response".  *)
SendOutcome(kind, payload) ==
  IF ~ReadLineOk(kind) THEN "read_err"
  ELSE IF kind = "eof" \/ ~payload.wellFormed THEN "parse_err"
  ELSE "ok"

(* A send_command that reads another line from the same connection. *)
SendRead_Again(p) ==
  /\ cli[p].pc = "send_read"
  /\ cli[p].reads < 2
  /\ Set(p, [cli[p] EXCEPT !.reads = @ + 1])
  /\ UNCHANGED <<workers, pidFile, sock, freshSock, freshPid, runs>>

(* send_command, lines 213-221: read_line returns and the line is decoded. *)
(* The connection goes out of scope when send_command returns.             *)
SendRead(p) ==
  /\ cli[p].pc = "send_read"
  /\ \E kind \in ReadKinds, payload \in Payloads :
       LET out == SendOutcome(kind, payload)
           got == IF kind \in {"line", "partial_eof"} THEN Some(payload) ELSE None
           rec == [cli[p] EXCEPT !.send = out, !.quiet = 0, !.conn = 0,
                                 !.readKind = kind, !.payload = got,
                                 !.reads = @ + 1]
       IN  IF out = "ok"
           THEN Set(p, [rec EXCEPT !.pc = "report", !.respSuccess = payload.success,
                                   !.resp = FromStrResponse(payload)])
           ELSE Set(p, Exit([rec EXCEPT !.trace = Append(@, "error")], 1))
  /\ UNCHANGED <<workers, pidFile, sock, freshSock, freshPid, runs>>

SendDrip(p) ==
  /\ cli[p].pc = "send_read"
  /\ workers[cli[p].conn] \in Alive
  /\ cli[p].quiet > 0
  /\ Set(p, [cli[p] EXCEPT !.quiet = 0])
  /\ UNCHANGED <<workers, pidFile, sock, freshSock, freshPid, runs>>

(* The read timeout of send_command passes without a byte *)
SendWait(p) ==
  /\ cli[p].pc = "send_read"
  /\ cli[p].quiet < SendTimeoutSecs
  /\ Set(p, [cli[p] EXCEPT !.quiet = SendTimeoutSecs])
  /\ UNCHANGED <<workers, pidFile, sock, freshSock, freshPid, runs>>

SendTimeout(p) ==
  /\ cli[p].pc = "send_read"
  /\ cli[p].quiet = SendTimeoutSecs
  /\ Set(p, Exit([cli[p] EXCEPT !.send = "read_err", !.quiet = 0, !.conn = 0,
                                !.readKind = "timeout", !.reads = @ + 1,
                                !.trace = Append(@, "error")], 1))
  /\ UNCHANGED <<workers, pidFile, sock, freshSock, freshPid, runs>>

(* A main that exits with code 0 whatever the response says. *)
Report_AlwaysZero(p) ==
  /\ cli[p].pc = "report"
  /\ Set(p, Exit([cli[p] EXCEPT !.trace = Append(@, "report")], 0))
  /\ UNCHANGED <<workers, pidFile, sock, freshSock, freshPid, runs>>

(* main, lines 104-110 *)
Report(p) ==
  /\ cli[p].pc = "report"
  /\ Set(p, Exit([cli[p] EXCEPT !.trace = Append(@, "report")],
                 IF cli[p].respSuccess THEN 0 ELSE 1))
  /\ UNCHANGED <<workers, pidFile, sock, freshSock, freshPid, runs>>

CliStep(p) ==
  \/ Main(p) \/ StartDaemon(p) \/ ForegroundExit(p) \/ StartMcp(p)
  \/ CheckRunning(p) \/ ProbeConnect(p) \/ ProbeWait(p) \/ ProbeTimeout(p)
  \/ CleanSock(p) \/ CleanPid(p) \/ FindDaemon(p) \/ Spawn(p) \/ Sleep(p)
  \/ SendConnect(p) \/ SendWait(p) \/ SendTimeout(p) \/ Report(p)

PeerStep(p) == ProbeRead(p) \/ ProbeDrip(p) \/ SendRead(p) \/ SendDrip(p)

WorkerStep == \E w \in Pids : WorkerWritePid(w) \/ WorkerListen(w) \/ WorkerExit(w)

Next == (\E p \in Solo : CliStep(p) \/ PeerStep(p)) \/ WorkerStep

Spec == Init /\ [][Next]_vars

(* The invocation is a running process: whenever it can take a step of its *)
(* own (time passing in a sleep or a blocked read included) it takes one.  *)
(* Nothing is assumed of the workers and of the peer of a connection.      *)
(* The session starts with no lifecycle file and no worker.                *)
FairInit ==
  /\ Init
  /\ pidFile = NoPidFile /\ sock = 0 /\ \A w \in Pids : workers[w] = "none"
FairSpec == FairInit /\ [][Next]_vars /\ WF_vars(\E p \in Solo : CliStep(p))

(* The steps of an invocation from its start to its spawn *)
RaceStep(p) ==
  \/ Main(p) \/ CheckRunning(p) \/ ProbeConnect(p) \/ ProbeRead(p) \/ ProbeDrip(p)
  \/ ProbeWait(p) \/ ProbeTimeout(p) \/ CleanSock(p) \/ CleanPid(p) \/ FindDaemon(p)
  \/ Spawn(p)

RaceNext == (\E p \in AllProcs : RaceStep(p)) \/ WorkerStep

RaceSpec == FairInit /\ [][RaceNext]_vars

(* The invocation that follows an interrupted one, run alone in a          *)
(* cooperating environment.  The session starts with whatever the          *)
(* interrupted invocation and its worker left: any pid file, a socket file *)
(* or none, the old worker in any state.  Cooperating means: removals      *)
(* succeed, the launch target resolves, the spawn succeeds, no worker      *)
(* exits, a worker that is listening takes the ping and answers with a     *)
(* line at once, and the spawned worker is listening before the last turn  *)
(* of the poll loop.                                                       *)
HealCli(p) ==
  \/ Main(p)
  \/ CheckRunning(p)
  \/ ProbeConnect(p) /\ (CanConnect(sock, workers) => cli'[p].pc = "reading")
  \/ CleanSock(p) /\ cli'[p].sockClean # "failed"
  \/ CleanPid(p) /\ cli'[p].pidClean # "failed"
  \/ FindDaemon(p) /\ cli'[p].pc = "spawn"
  \/ Spawn(p) /\ cli'[p].pc = "sleep"
  \/ Sleep(p) /\ (cli[p].attempt < MaxAttempts - 1 \/ CanConnect(sock, workers))

HealPeer(p) == ProbeRead(p) /\ cli'[p].ready /\ cli'[p].probeKind = "line"

HealWorker == \E w \in Pids : WorkerWritePid(w) \/ WorkerListen(w)

HealNext == (\E p \in Solo : HealCli(p) \/ HealPeer(p)) \/ HealWorker

HealSpec ==
  /\ Init /\ [][HealNext]_vars
  /\ WF_vars(\E p \in Solo : HealCli(p))
  /\ WF_vars(\E p \in Solo : HealPeer(p))
  /\ WF_vars(\E w \in Pids : WorkerListen(w))

(***************************************************************************)
(* commands.rs: parse_command on its own.  The inputs are drawn at the     *)
(* start and one step applies the function to them.                        *)
(***************************************************************************)
(* The patterns of the match in parse_command, one set per arm. *)
AliasGroups ==
  { {"daemon"}, {"mcp"}, {"launch"}, {"close"}, {"navigate", "open", "goto"},
    {"back"}, {"forward"}, {"reload", "refresh"}, {"click"},
    {"dblclick", "doubleclick"}, {"type"}, {"fill"}, {"clear"}, {"check"},
    {"uncheck"}, {"select"}, {"hover"}, {"focus"}, {"press"}, {"scroll"},
    {"snapshot"}, {"screenshot"}, {"title", "gettitle"}, {"url", "geturl"},
    {"text", "gettext"}, {"html", "gethtml"}, {"value", "getvalue"},
    {"count", "getcount"}, {"visible", "isvisible"}, {"enabled", "isenabled"},
    {"checked", "ischecked"}, {"wait"}, {"frames", "getframes"},
    {"frame", "switchtoframe"}, {"mainframe"}, {"pages", "getpages"},
    {"newpage"}, {"switchpage"}, {"closepage"}, {"eval", "evaluate"},
    {"cookies", "getcookies"}, {"clearcookies"},
    {"localstorage", "getlocalstorage"}, {"clearlocalstorage"}, {"pdf"},
    {"stream", "startstream"}, {"stopstream"} }
Verbs == UNION AliasGroups
GroupOf(v) == CHOOSE g \in AliasGroups : v \in g

(* The action names given to CommandJson::new in parse_command *)
CanonicalActions ==
  { "daemon", "mcp", "launch", "close", "navigate", "back", "forward", "reload",
    "click", "dblclick", "type", "fill", "clear", "check", "uncheck", "select",
    "hover", "focus", "press", "scroll", "snapshot", "screenshot", "getTitle",
    "getUrl", "getText", "getHtml", "getValue", "getCount", "isVisible",
    "isEnabled", "isChecked", "wait", "waitForSelector", "getFrames",
    "switchToFrame", "switchToMainFrame", "getPages", "newPage", "switchPage",
    "closePage", "evaluate", "getCookies", "clearCookies", "getLocalStorage",
    "clearLocalStorage", "pdf", "startStream", "stopStream" }

(* The letter-casings a verb token is tried in *)
UpperChar(c) ==
  CASE c = "a" -> "A" [] c = "b" -> "B" [] c = "c" -> "C" [] c = "d" -> "D"
    [] c = "e" -> "E" [] c = "f" -> "F" [] c = "g" -> "G" [] c = "h" -> "H"
    [] c = "i" -> "I" [] c = "j" -> "J" [] c = "k" -> "K" [] c = "l" -> "L"
    [] c = "m" -> "M" [] c = "n" -> "N" [] c = "o" -> "O" [] c = "p" -> "P"
    [] c = "q" -> "Q" [] c = "r" -> "R" [] c = "s" -> "S" [] c = "t" -> "T"
    [] c = "u" -> "U" [] c = "v" -> "V" [] c = "w" -> "W" [] c = "x" -> "X"
    [] c = "y" -> "Y" [] c = "z" -> "Z" [] OTHER -> c
Casings == {"lower", "upper", "title", "mixed"}
Cased(t, c) ==
  [i \in 1..Len(t) |->
     IF c = "upper" \/ (c = "title" /\ i = 1) \/ (c = "mixed" /\ i % 2 = 0)
     THEN UpperChar(t[i]) ELSE t[i]]

(* The arguments after the verb: none, a selector, numbers, several words, *)
(* an empty token, words with an empty one and one holding a space among   *)
(* them, and the full-page token before a file name.                       *)
OutPng == <<"o", ".", "p", "n", "g">>
Rests ==
  { <<>>, <<SelA>>, <<<<"5">>>>, <<<<"+", "5">>>>, <<<<"0", "5", "0">>>>,
    <<SelA, <<"b">>>>, <<SelA, <<"b">>, <<"c">>>>, <<<<"5">>, SelA>>,
    <<<<>>>>, <<SelA, <<>>, <<"c", " ", "d">>, <<"b">>>>,
    <<Lit("--full-page"), OutPng>> }

(* Arguments at the limits of the index type, given to switchpage alone *)
IndexRests ==
  { <<<<"4", "2", "9", "4", "9", "6", "7", "2", "9", "5">>>>,
    <<<<"4", "2", "9", "4", "9", "6", "7", "2", "9", "6">>>>,
    <<<<"0", "4", "2", "9", "4", "9", "6", "7", "2", "9", "5">>>>,
    <<<<"5", "0", "0", "0", "0", "0", "0", "0", "0", "0">>>>,
    <<<<"+", "0", "0">>>>, <<<<"-", "1">>>>, <<<<"+">>>>, <<<<"1", "x">>>> }

(* The option tokens of the command line: none, or a timeout of 7 ms *)
FlagTokenSets == { <<>>, <<Lit("--timeout=") \o <<"7">>>> }

(* An input: the tokens given to parse_command, the option record, and    *)
(* the command line they come from (the tokens, then the option tokens).   *)
VerbInput(v, c, rest, ft) ==
  [verb |-> v, args |-> <<Cased(Lit(v), c)>> \o rest, flags |-> FlagsParse(ft, NoEnv),
   line |-> <<Cased(Lit(v), c)>> \o rest \o ft]
OtherInput(args, ft) ==
  [verb |-> "", args |-> args, flags |-> FlagsParse(ft, NoEnv), line |-> args \o ft]
ParseInputs ==
  { VerbInput(v, c, rest, ft) :
      v \in Verbs, c \in Casings, rest \in Rests, ft \in FlagTokenSets }
  \cup { VerbInput("switchpage", c, rest, ft) :
           c \in Casings, rest \in IndexRests, ft \in FlagTokenSets }
  \cup { OtherInput(args, ft) :
           args \in { <<>>, <<<<"b", "o", "g", "u", "s">>>>,
                      <<<<"B", "o", "g", "u", "s">>, SelA>>, <<<<>>>>,
                      <<Lit("--json")>>, <<<<"c", "l", "i", "c", "k", "s">>, SelA>> },
           ft \in FlagTokenSets }

ParseInit ==
  /\ \E i \in ParseInputs :
       cli = [p \in AllProcs |-> IF p \in Solo THEN [Idle EXCEPT !.inp = Some(i)]
                                               ELSE Idle]
  /\ workers = [w \in Pids |-> "none"]
  /\ pidFile = NoPidFile
  /\ sock = 0
  /\ freshSock = AllProcs
  /\ freshPid = AllProcs
  /\ runs = 0

ParseArgs(p) ==
  /\ cli[p].pc = "idle"
  /\ IsSome(cli[p].inp)
  /\ LET i == cli[p].inp[1]
     IN  Set(p, [cli[p] EXCEPT !.pc = "parsed",
                               !.res = Some(ParseCommand(i.args, i.flags))])
  /\ UNCHANGED <<workers, pidFile, sock, freshSock, freshPid, runs>>

(* main, lines 27-76, on the command line of the input: the options are   *)
(* parsed, the tokens filtered and the command parsed, up to the call of   *)
(* ensure_daemon.                                                          *)
MainLine(p) ==
  /\ cli[p].pc = "idle"
  /\ IsSome(cli[p].inp)
  /\ Set(p, [MainParse(cli[p].inp[1].line) EXCEPT !.inp = cli[p].inp])
  /\ UNCHANGED <<workers, pidFile, sock, freshSock, freshPid, runs>>

(* to_json on the descriptor that parse_command returned *)
Encode(p) ==
  /\ cli[p].pc = "parsed"
  /\ cli[p].res[1].ok
  /\ Set(p, [cli[p] EXCEPT !.pc = "encoded", !.wire = Some(ToJson(cli[p].res[1].cmd))])
  /\ UNCHANGED <<workers, pidFile, sock, freshSock, freshPid, runs>>

(* The worker decodes the request it received *)
Decode(p) ==
  /\ cli[p].pc = "encoded"
  /\ Set(p, [cli[p] EXCEPT !.pc = "decoded",
                            !.back = Some(FromJsonRequest(cli[p].wire[1]))])
  /\ UNCHANGED <<workers, pidFile, sock, freshSock, freshPid, runs>>

ParseNext == \E p \in Solo : ParseArgs(p) \/ Encode(p) \/ Decode(p) \/ MainLine(p)

ParseSpec == ParseInit /\ [][ParseNext]_vars

(***************************************************************************)
(* connection.rs: the lifecycle paths of a session                         *)
(***************************************************************************)
(* env::temp_dir() *)
TempDir == <<"/", "t", "m", "p">>

(* Path::join: an absolute right-hand side replaces the left-hand side *)
IsAbsolute(t) == t # <<>> /\ t[1] = "/"
PathJoin(base, name) ==
  IF IsAbsolute(name) THEN name
  ELSE IF base # <<>> /\ base[Len(base)] = "/" THEN base \o name
  ELSE base \o <<"/">> \o name

GetSocketPath(session) ==
  PathJoin(TempDir, Lit("agentbrowser-pro-") \o session \o Lit(".sock"))
GetPidFile(session) ==
  PathJoin(TempDir, Lit("agentbrowser-pro-") \o session \o Lit(".pid"))

(* The file a path denotes when the operating system resolves it: the      *)
(* names from the root down, after "." and empty components are skipped    *)
(* and each ".." has left the directory reached so far.                    *)
RECURSIVE Split(_, _)
Split(t, piece) ==
  IF t = <<>> THEN <<piece>>
  ELSE IF t[1] = "/" THEN <<piece>> \o Split(Tail(t), <<>>)
  ELSE Split(Tail(t), Append(piece, t[1]))
Components(path) == SelectSeq(Split(path, <<>>), LAMBDA c : c # <<>> /\ c # <<".">>)
RECURSIVE Walk(_, _)
Walk(comps, at) ==
  IF comps = <<>> THEN at
  ELSE IF comps[1] = <<".", ".">>
    THEN Walk(Tail(comps), IF at = <<>> THEN at ELSE SubSeq(at, 1, Len(at) - 1))
  ELSE Walk(Tail(comps), Append(at, comps[1]))
Denotes(path) == Walk(Components(path), <<>>)

(* The session names tried: up to MaxPieces pieces, each a letter, "..",   *)
(* "." or nothing, with a path separator between them.                     *)
MaxPieces == 4
Pieces == { <<"a">>, <<".", ".">>, <<".">>, <<>> }
RECURSIVE Slashed(_)
Slashed(ps) ==
  IF Len(ps) = 1 THEN ps[1] ELSE ps[1] \o <<"/">> \o Slashed(Tail(ps))
SessionNames == { Slashed(ps) : ps \in UNION { [1..n -> Pieces] : n \in 1..MaxPieces } }

(* A command line with its environment: the session is named by the        *)
(* option, by AGENT_BROWSER_SESSION, or by neither.                        *)
PathInputs ==
  { [line |-> <<Lit("--session=") \o n, Lit("click"), SelA>>, env |-> NoEnv] :
      n \in SessionNames }
  \cup { [line |-> <<Lit("click"), SelA>>, env |-> [NoEnv EXCEPT !.session = Some(n)]] :
           n \in SessionNames }
  \cup { [line |-> <<Lit("click"), SelA>>, env |-> NoEnv] }

PathInit ==
  /\ \E i \in PathInputs :
       cli = [p \in AllProcs |-> IF p \in Solo THEN [Idle EXCEPT !.inp = Some(i)]
                                               ELSE Idle]
  /\ workers = [w \in Pids |-> "none"]
  /\ pidFile = NoPidFile
  /\ sock = 0
  /\ freshSock = AllProcs
  /\ freshPid = AllProcs
  /\ runs = 0

(* main, lines 27-28 and 90: the options give the session, and the calls   *)
(* of connection.rs derive the two paths from it.                          *)
SessionPaths(p) ==
  /\ cli[p].pc = "idle"
  /\ IsSome(cli[p].inp)
  /\ LET flags == FlagsParse(cli[p].inp[1].line, cli[p].inp[1].env)
     IN  Set(p, [cli[p] EXCEPT
                   !.pc = "paths",
                   !.res = Some([session |-> flags.session,
                                 socketPath |-> GetSocketPath(flags.session),
                                 pidFilePath |-> GetPidFile(flags.session)])])
  /\ UNCHANGED <<workers, pidFile, sock, freshSock, freshPid, runs>>

PathNext == \E p \in Solo : SessionPaths(p)

PathSpec == PathInit /\ [][PathNext]_vars

(***************************************************************************)
(* Two invocations, each with a session name of its own.  Every file       *)
(* access of ensure_daemon and send_command goes through get_socket_path   *)
(* or get_pid_file of the invocation's session.                            *)
(***************************************************************************)
MaxPairPieces == 3
PairNames ==
  { Slashed(ps) : ps \in UNION { [1..n -> Pieces] : n \in 1..MaxPairPieces } }
PairInputs ==
  { [line |-> <<Lit("--session=") \o n, Lit("click"), SelA>>, env |-> NoEnv] :
      n \in PairNames }
  \cup { [line |-> <<Lit("click"), SelA>>, env |-> NoEnv] }

PairInit ==
  /\ \E i \in PairInputs, j \in PairInputs :
       cli = [p \in AllProcs |-> IF p \in Solo THEN [Idle EXCEPT !.inp = Some(i)]
                                               ELSE [Idle EXCEPT !.inp = Some(j)]]
  /\ workers = [w \in Pids |-> "none"]
  /\ pidFile = NoPidFile
  /\ sock = 0
  /\ freshSock = AllProcs
  /\ freshPid = AllProcs
  /\ runs = 0

PairNext == \E p \in AllProcs : SessionPaths(p)

PairSpec == PairInit /\ [][PairNext]_vars

(***************************************************************************)
(* Properties                                                              *)
(***************************************************************************)
EnsureOk == {"already", "started"}
EnsureFailed == {"notfound", "spawnfail", "timeout"}

(* The state right after the Spawn step of invocation p: the worker has    *)
(* been started and the first sleep of the poll loop has not begun.        *)
AtSpawn(p) == cli[p].pc = "sleep" /\ cli[p].attempt = 0 /\ cli[p].spawns = 1

(* C1: a call of ensure_daemon that finds the pid file naming a live       *)
(* process and gets a line back from the readiness probe returns           *)
(* already_running = true, has spawned nothing and has run neither         *)
(* removal; this holds of every call, so of a second call as well.         *)
C1_FastPath ==
  \A p \in AllProcs :
    (cli[p].sawLive /\ cli[p].ready /\ cli[p].probeKind = "line")
      => /\ cli[p].pc = "send_connect"
         /\ cli[p].ensure = "already"
         /\ cli[p].spawns = 0
         /\ cli[p].sockClean = "unset" /\ cli[p].pidClean = "unset"

(* C1 witness: the second of two calls in a row returns already_running =  *)
(* true on a live pid and an answered probe, as the first one did, and no  *)
(* worker beyond the one that was there has been started.                  *)
C1_Witness ==
  /\ runs = 2
  /\ cli[1].prevAlready
  /\ cli[1].pc = "send_connect" /\ cli[1].ensure = "already"
  /\ cli[1].sawLive /\ cli[1].probeKind = "line"
  /\ \A w \in Pids : w > 1 => workers[w] = "none"

C2_WitnessTimeout ==
  cli[1].startedClean /\ cli[1].ensure = "timeout" /\ cli[1].attempt = MaxAttempts

(* C3: the poll loop makes at most MaxAttempts probes, returns at the      *)
(* first that succeeds, fails with the start-timeout exactly when all of   *)
(* them failed, and so always ends: once the worker is spawned the call    *)
(* eventually returns.                                                     *)
C3_PollTerminates ==
  \A p \in Solo :
    (cli[p].pc = "sleep") ~> (cli[p].pc \in {"send_connect", "exited"})

(* The counting part of C3, which the code does satisfy. *)
C3_PollCount ==
  \A p \in AllProcs :
    /\ cli[p].attempt \in 0..MaxAttempts
    /\ (cli[p].ensure = "timeout") <=>
         (cli[p].pc = "exited" /\ cli[p].spawns = 1 /\ ~cli[p].ready
            /\ cli[p].attempt = MaxAttempts /\ cli[p].send = "none"
            /\ cli[p].parsed = "ok" /\ cli[p].ensure \notin {"notfound", "spawnfail"})

(* C4: from the spawn to its return ensure_daemon waits at most 5 seconds. *)
C4_HardCap ==
  \A p \in AllProcs : cli[p].spawns = 1 => Elapsed(cli[p]) <= 5000

(* C5 as claimed: at the moment the worker is spawned neither lifecycle    *)
(* file exists.                                                            *)
C5_FilesGoneAtSpawn ==
  \A p \in AllProcs : AtSpawn(p) => ~cli[p].sockSeen /\ ~cli[p].pidSeen

(* C5 amended: before the spawn ensure_daemon has looked at both lifecycle *)
(* files and tried to remove each one that existed; a file that exists at  *)
(* the moment of the spawn is one whose removal failed (the failure is     *)
(* ignored) or one a worker created after that cleanup step.               *)
C5_CleanupBeforeSpawn ==
  \A p \in AllProcs :
    AtSpawn(p)
      => /\ cli[p].sockClean \in {"absent", "removed", "failed"}
         /\ cli[p].pidClean \in {"absent", "removed", "failed"}
         /\ cli[p].sockSeen => (cli[p].sockClean = "failed" \/ cli[p].sockFresh)
         /\ cli[p].pidSeen => (cli[p].pidClean = "failed" \/ cli[p].pidFresh)

(* C5 witness: both stale files were there, both removals succeeded, and   *)
(* neither file exists when the worker is spawned.                         *)
C5_Witness ==
  /\ AtSpawn(1)
  /\ cli[1].sockClean = "removed" /\ cli[1].pidClean = "removed"
  /\ ~cli[1].sockSeen /\ ~cli[1].pidSeen

(* C6: the liveness check answers Running only if the pid file holds the   *)
(* id of a live process; when it answers NotRunning the call goes to the   *)
(* cleanup, and no call returns by the fast path without a live process    *)
(* named by the pid file.                                                  *)
C6_LivenessCheck ==
  \A p \in AllProcs :
    /\ cli[p].running => cli[p].sawLive
    /\ (cli[p].pc = "send_connect" /\ cli[p].ensure = "already") => cli[p].sawLive

(* C7: the readiness check answers ready exactly when the connection       *)
(* succeeded, the ping was written and the worker returned a line (here:   *)
(* bytes of a line, ended by a newline or by the end of the stream); a     *)
(* connection the worker closed without returning anything is not ready.   *)
C7_ReadyIffLine ==
  \A p \in AllProcs :
    cli[p].probeKind # "none"
      => (cli[p].ready <=> cli[p].probeKind \in {"line", "partial_eof"})

(* C8: with no candidate launch target ensure_daemon fails with the        *)
(* daemon-not-found failure, having spawned nothing and polled nothing;    *)
(* otherwise the target it resolves, and launches, is the first candidate  *)
(* of the list that exists.                                                *)
CandidateExists(k, i) == k.exe /\ k.up /\ k.c[i]
FirstCandidate(k, i) ==
  i \in 1..3 /\ CandidateExists(k, i) /\ \A j \in 1..(i - 1) : ~CandidateExists(k, j)
C8_LaunchTarget ==
  \A p \in AllProcs :
    cli[p].cands # NoCands
      => LET k == cli[p].cands[1]
         IN  IF \A i \in 1..3 : ~CandidateExists(k, i)
             THEN /\ cli[p].pc = "exited" /\ cli[p].ensure = "notfound"
                  /\ cli[p].exitCode # 0
                  /\ cli[p].spawns = 0 /\ cli[p].attempt = 0 /\ cli[p].launched = 0
             ELSE /\ FirstCandidate(k, cli[p].target)
                  /\ cli[p].ensure # "notfound"
                  /\ cli[p].spawns = 1 => cli[p].launched = cli[p].target

(* C8 witness: the first candidate is missing, the second and third exist, *)
(* and the worker was launched from the second.                            *)
C8_Witness ==
  /\ AtSpawn(1) /\ cli[1].cands # NoCands
  /\ ~cli[1].cands[1].c[1] /\ cli[1].cands[1].c[2] /\ cli[1].cands[1].c[3]
  /\ cli[1].launched = 2

(* C8 witness of the failure: no candidate exists *)
C8_WitnessNotFound ==
  /\ cli[1].ensure = "notfound" /\ cli[1].cands # NoCands
  /\ cli[1].cands[1].exe /\ cli[1].cands[1].up

(* C9: the phases of an invocation come in the order parse, ensure-daemon, *)
(* send, report and a failure ends it: after a parse failure nothing is    *)
(* spawned and no socket is opened, after an ensure-daemon failure nothing *)
(* is sent, and at most one descriptor is sent, only after ensure_daemon   *)
(* returned success.                                                       *)
PhaseOrders ==
  { <<>>, <<"parse">>, <<"parse", "error">>, <<"parse", "ensure">>,
    <<"parse", "ensure", "error">>, <<"parse", "ensure", "send">>,
    <<"parse", "ensure", "send", "error">>, <<"parse", "ensure", "send", "report">> }
C9_PhaseOrder ==
  \A p \in AllProcs :
    /\ cli[p].trace \in PhaseOrders
    /\ (cli[p].parsed = "err")
         => /\ cli[p].pc = "exited" /\ cli[p].trace = <<"parse", "error">>
            /\ cli[p].spawns = 0 /\ ~cli[p].connected /\ cli[p].sent = 0
    /\ (cli[p].ensure \in EnsureFailed)
         => /\ cli[p].pc = "exited" /\ cli[p].trace = <<"parse", "ensure", "error">>
            /\ cli[p].sent = 0 /\ cli[p].send = "none"
    /\ cli[p].sent <= 1
    /\ (cli[p].sent = 1 \/ cli[p].send # "none" \/ cli[p].pc \in {"send_read", "report"})
         => cli[p].parsed = "ok" /\ cli[p].ensure \in EnsureOk

(* C9 witness: an invocation went through all four phases and sent one     *)
(* descriptor.                                                             *)
C9_Witness ==
  /\ cli[1].trace = <<"parse", "ensure", "send", "report">>
  /\ cli[1].sent = 1 /\ cli[1].pc = "exited"

(* C10: an invocation of a command ends with exit code 0 exactly when the  *)
(* parse, ensure_daemon and send_command succeeded and the response says   *)
(* success; every failure gives a code other than 0.                       *)
C10_ExitCode ==
  \A p \in AllProcs :
    (cli[p].pc = "exited" /\ cli[p].kind = "command")
      => /\ cli[p].exitCode \in {0, 1}
         /\ (cli[p].exitCode = 0)
              <=> /\ cli[p].parsed = "ok" /\ cli[p].ensure \in EnsureOk
                  /\ cli[p].send = "ok" /\ cli[p].respSuccess

(* C10 witness: a well-formed response with success = false gave a code    *)
(* other than 0.                                                           *)
C10_Witness ==
  /\ cli[1].pc = "exited" /\ cli[1].kind = "command"
  /\ cli[1].send = "ok" /\ ~cli[1].respSuccess /\ cli[1].exitCode = 1

(* C10 witness of the success: exit code 0 *)
C10_WitnessZero ==
  /\ cli[1].pc = "exited" /\ cli[1].kind = "command" /\ cli[1].exitCode = 0


(***************************************************************************)
(* Properties of send_command                                              *)
(***************************************************************************)
(* C11: a connection that is reset or ends before a whole line, newline    *)
(* included, has arrived makes send_command fail with the read failure,    *)
(* never with the failure of an undecodable line, and what arrived is      *)
(* never decoded into a Response.                                          *)
C11_IncompleteResponse ==
  \A p \in AllProcs :
    cli[p].readKind \in {"reset", "eof", "partial_eof"} => cli[p].send = "read_err"

(* C12: send_command keeps transport failures and application failures     *)
(* apart.  A connect failure and an undecodable line are failures that end *)
(* the invocation; a well-formed response with success = false is returned *)
(* as a Response, reaches the report, and is never a failure of            *)
(* send_command.                                                           *)
C12_FailureKinds ==
  \A p \in AllProcs :
    /\ (cli[p].send = "connect_err")
         => /\ cli[p].pc = "exited" /\ cli[p].exitCode = 1
            /\ cli[p].trace = <<"parse", "ensure", "send", "error">>
            /\ cli[p].sent = 0 /\ cli[p].payload = None
    /\ (IsSome(cli[p].payload) /\ ~cli[p].payload[1].wellFormed)
         => /\ cli[p].send = "parse_err" /\ cli[p].pc = "exited"
            /\ cli[p].trace = <<"parse", "ensure", "send", "error">>
    /\ (IsSome(cli[p].payload) /\ cli[p].payload[1].wellFormed
          /\ ~cli[p].payload[1].success)
         => /\ cli[p].send = "ok" /\ ~cli[p].respSuccess
            /\ cli[p].pc \in {"report", "exited"}
            /\ cli[p].trace \in {<<"parse", "ensure", "send">>,
                                 <<"parse", "ensure", "send", "report">>}

(* C12 witness: a response with success = false has come back from         *)
(* send_command as a value.                                                *)
C12_Witness ==
  /\ cli[1].pc = "report" /\ cli[1].send = "ok" /\ cli[1].readKind = "line"
  /\ IsSome(cli[1].payload)
  /\ cli[1].payload[1].wellFormed /\ ~cli[1].payload[1].success

(* C12 witnesses of the two failures *)
C12_WitnessConnect == cli[1].send = "connect_err" /\ cli[1].ensure \in EnsureOk
C12_WitnessMalformed ==
  /\ cli[1].send = "parse_err" /\ cli[1].readKind = "line"
  /\ IsSome(cli[1].payload) /\ ~cli[1].payload[1].wellFormed

(* C13: send_command always returns: once the request is written the call  *)
(* ends with a Response or with a failure, whatever the worker does.       *)
C13_SendTerminates ==
  \A p \in Solo :
    (cli[p].pc = "send_read") ~> (cli[p].pc \in {"report", "exited"})

(* C14: a connection of send_command carries one request and at most one   *)
(* response: one descriptor is written, one line is read, and the          *)
(* connection is gone when send_command has returned.                      *)
C14_OneExchange ==
  \A p \in AllProcs :
    /\ cli[p].sent <= 1 /\ cli[p].reads <= 1
    /\ cli[p].reads = 1 => cli[p].sent = 1
    /\ (cli[p].pc = "send_read")
         => cli[p].sent = 1 /\ cli[p].reads = 0 /\ cli[p].conn # 0
    /\ (cli[p].send \in {"ok", "parse_err", "read_err"})
         => cli[p].sent = 1 /\ cli[p].reads = 1
    /\ (cli[p].pc \in {"report", "exited"}) => cli[p].conn = 0

(* C14 witness: an exchange that went through: one request, one line *)
C14_Witness ==
  /\ cli[1].pc = "exited" /\ cli[1].send = "ok" /\ cli[1].respSuccess
  /\ cli[1].sent = 1 /\ cli[1].reads = 1 /\ cli[1].conn = 0

(***************************************************************************)
(* Properties of concurrent and interrupted invocations                    *)
(***************************************************************************)
Started == {w \in Pids : workers[w] # "none"}

(* C15: two invocations running ensure_daemon against one session are not  *)
(* excluded from each other.  An invocation that has reached its spawn can *)
(* take it whatever the other one is doing, and every spawn starts a       *)
(* process of its own; so both can observe NotRunning and both spawn.      *)
C15_NoMutualExclusion ==
  /\ \A p \in AllProcs :
       (cli[p].pc = "spawn" /\ FreePids # {}) => ENABLED Spawn(p)
  /\ Cardinality(Started) = cli[1].spawns + cli[2].spawns

(* C15 witness: both invocations found no pid file and no socket, so both  *)
(* observed NotRunning, and both have spawned: two workers run for the     *)
(* session.                                                                *)
C15_Witness ==
  /\ AtSpawn(1) /\ AtSpawn(2)
  /\ cli[1].startedClean /\ cli[2].startedClean
  /\ Cardinality({w \in Pids : workers[w] \in Alive}) = 2

C16_WitnessCleared ==
  /\ AtSpawn(1) /\ workers[1] = "dead"
  /\ cli[1].sockClean = "removed" /\ cli[1].pidClean = "removed"
  /\ sock = 0 /\ ~pidFile.exists

(***************************************************************************)
(* Properties of parse_command                                             *)
(***************************************************************************)
Parsed(p) == cli[p].pc = "parsed"
Input(p) == cli[p].inp[1]
Result(p) == cli[p].res[1]

(* C17: parse_command is total.  For every token sequence, the empty one   *)
(* and the one-token ones included, it returns either a descriptor whose   *)
(* action is one of the canonical action names (none of them empty) or a   *)
(* structured parse failure; no argument is read out of range.             *)
C17_Total ==
  \A p \in Solo :
    Parsed(p)
      => LET r == Result(p)
         IN  \/ /\ r.ok /\ r.err = NoErr
                /\ r.cmd.action \in CanonicalActions /\ r.cmd.action # ""
                /\ r.cmd.id = "1"
             \/ /\ ~r.ok /\ r.cmd = NoCmd
                /\ \/ /\ r.err.kind = "MissingArguments"
                      /\ r.err.context # "" /\ r.err.usage # ""
                   \/ /\ r.err.kind = "UnknownCommand"
                      /\ r.err.command = ToLowercase(Input(p).args[1])

(* C17 witnesses: the empty sequence gives a failure, a single token that  *)
(* is no verb gives a failure, a single verb token gives a descriptor.     *)
C17_Witness ==
  /\ Parsed(1) /\ Input(1).args = <<>>
  /\ ~Result(1).ok /\ Result(1).err.kind = "MissingArguments"
C17_WitnessUnknown ==
  /\ Parsed(1) /\ Len(Input(1).args) = 1 /\ Input(1).verb = ""
  /\ ~Result(1).ok /\ Result(1).err.kind = "UnknownCommand"
C17_WitnessSingle ==
  /\ Parsed(1) /\ Len(Input(1).args) = 1 /\ Input(1).verb = "click"
  /\ ~Result(1).ok /\ Result(1).err.kind = "MissingArguments"

(* C18: every alias of a verb, in every letter-casing, gives the same      *)
(* result on the same remaining arguments and the same options: the same   *)
(* descriptor or the same failure.                                         *)
C18_Aliases ==
  \A p \in Solo :
    (Parsed(p) /\ Input(p).verb # "")
      => \A b \in GroupOf(Input(p).verb), c \in Casings :
           ParseCommand(<<Cased(Lit(b), c)>> \o Tail(Input(p).args), Input(p).flags)
             = Result(p)

(* C18 witness: "GOTO" with a url gives the descriptor of navigate *)
C18_Witness ==
  /\ Parsed(1) /\ Input(1).verb = "goto" /\ Input(1).args[1] = <<"G", "O", "T", "O">>
  /\ Len(Input(1).args) = 2
  /\ Result(1).ok /\ Result(1).cmd.action = "navigate"
  /\ Result(1).cmd.url = Some(Input(1).args[2])
  /\ Result(1) = ParseCommand(<<Lit("navigate"), Input(1).args[2]>>, Input(1).flags)

(* C19: the verbs navigate, click, type, fill, clear, check, uncheck,      *)
(* select, hover, focus, press, text and screenshot carry the caller's     *)
(* timeout in their descriptor; no other verb carries a timeout taken      *)
(* from the options.                                                       *)
TimeoutVerbs ==
  { "navigate", "click", "type", "fill", "clear", "check", "uncheck", "select",
    "hover", "focus", "press", "text", "screenshot" }
C19_TimeoutVerbs ==
  \A p \in Solo :
    (Parsed(p) /\ Input(p).verb # "" /\ Result(p).ok /\ IsSome(Input(p).flags.timeout))
      => IF GroupOf(Input(p).verb) \cap TimeoutVerbs # {}
         THEN Result(p).cmd.timeout = Input(p).flags.timeout
         ELSE Result(p).cmd.timeout # Input(p).flags.timeout

C20_WitnessSelector ==
  /\ Parsed(1) /\ Input(1).verb = "wait" /\ Tail(Input(1).args) = <<SelA>>
  /\ IsSome(Input(1).flags.timeout)
  /\ Result(1).cmd.action = "waitForSelector" /\ Result(1).cmd.timeout = None
C20_WitnessDefault ==
  /\ Parsed(1) /\ Input(1).verb = "wait" /\ Len(Input(1).args) = 1
  /\ Result(1).cmd.action = "wait" /\ Result(1).cmd.timeout = Some(1000)

(***************************************************************************)
(* Properties of parse_command: arguments                                  *)
(***************************************************************************)
(* The verbs that require arguments: the canonical name (the context       *)
(* label), the number of arguments required and the usage text.            *)
Required ==
  { [context |-> "navigate", n |-> 1, usage |-> "navigate <url>"],
    [context |-> "click", n |-> 1, usage |-> "click <selector|ref>"],
    [context |-> "dblclick", n |-> 1, usage |-> "dblclick <selector|ref>"],
    [context |-> "type", n |-> 2, usage |-> "type <selector|ref> <text>"],
    [context |-> "fill", n |-> 2, usage |-> "fill <selector|ref> <value>"],
    [context |-> "clear", n |-> 1, usage |-> "clear <selector|ref>"],
    [context |-> "check", n |-> 1, usage |-> "check <selector|ref>"],
    [context |-> "uncheck", n |-> 1, usage |-> "uncheck <selector|ref>"],
    [context |-> "select", n |-> 2,
     usage |-> "select <selector|ref> <value|label|index>"],
    [context |-> "hover", n |-> 1, usage |-> "hover <selector|ref>"],
    [context |-> "focus", n |-> 1, usage |-> "focus <selector|ref>"],
    [context |-> "press", n |-> 1, usage |-> "press <key> [selector]"],
    [context |-> "text", n |-> 1, usage |-> "text <selector|ref>"],
    [context |-> "value", n |-> 1, usage |-> "value <selector|ref>"],
    [context |-> "count", n |-> 1, usage |-> "count <selector>"],
    [context |-> "visible", n |-> 1, usage |-> "visible <selector|ref>"],
    [context |-> "enabled", n |-> 1, usage |-> "enabled <selector|ref>"],
    [context |-> "checked", n |-> 1, usage |-> "checked <selector|ref>"],
    [context |-> "frame", n |-> 1, usage |-> "frame <selector|name|url>"],
    [context |-> "switchpage", n |-> 1, usage |-> "switchpage <index|url|title>"],
    [context |-> "eval", n |-> 1, usage |-> "eval <script>"] }
RequiredOf(v) == {row \in Required : row.context \in GroupOf(v)}

(* C21: a verb that requires N arguments and is given fewer returns        *)
(* MissingArguments with the verb's canonical context label and its usage  *)
(* text, and no descriptor; given N or more it returns a descriptor.  A    *)
(* verb that requires none never returns MissingArguments.                 *)
C21_MissingArguments ==
  \A p \in Solo :
    (Parsed(p) /\ Input(p).verb # "")
      => LET r == Result(p)
             rest == Tail(Input(p).args)
         IN  /\ \A row \in RequiredOf(Input(p).verb) :
                  IF Len(rest) < row.n
                  THEN /\ ~r.ok /\ r.cmd = NoCmd
                       /\ r.err.kind = "MissingArguments"
                       /\ r.err.context = row.context
                       /\ r.err.usage = row.usage
                  ELSE r.ok /\ r.err = NoErr
             /\ RequiredOf(Input(p).verb) = {} => r.ok

(* C21 witness: click without arguments gives MissingArguments with the    *)
(* context "click" and the usage "click <selector|ref>".                   *)
C21_Witness ==
  /\ Parsed(1) /\ Input(1).verb = "click" /\ Tail(Input(1).args) = <<>>
  /\ ~Result(1).ok /\ Result(1).err.kind = "MissingArguments"
  /\ Result(1).err.context = "click"
  /\ Result(1).err.usage = "click <selector|ref>"

(* C21 witness of a verb with N = 2: type with a selector and no text *)
C21_WitnessTwo ==
  /\ Parsed(1) /\ Input(1).verb = "type" /\ Tail(Input(1).args) = <<SelA>>
  /\ ~Result(1).ok /\ Result(1).err.context = "type"

(* C21 witness of an alias: open without arguments is labelled navigate *)
C21_WitnessAlias ==
  /\ Parsed(1) /\ Input(1).verb = "open" /\ Tail(Input(1).args) = <<>>
  /\ ~Result(1).ok /\ Result(1).err.context = "navigate"

(* The place of the i-th piece in a text made of the pieces ts with one    *)
(* character between neighbours.                                           *)
RECURSIVE Offset(_, _)
Offset(ts, i) == IF i = 1 THEN 0 ELSE Offset(ts, i - 1) + Len(ts[i - 1]) + 1
(* s is the pieces ts, in order, with exactly one space between neighbours *)
IsSpaced(ts, s) ==
  /\ ts # <<>>
  /\ Len(s) = Offset(ts, Len(ts)) + Len(ts[Len(ts)])
  /\ \A i \in 1..Len(ts) :
       /\ SubSeq(s, Offset(ts, i) + 1, Offset(ts, i) + Len(ts[i])) = ts[i]
       /\ i < Len(ts) => s[Offset(ts, i) + Len(ts[i]) + 1] = " "

(* C22: type and fill, given a selector and k >= 1 further tokens, put the *)
(* selector in selector and all k tokens, in order, one space between      *)
(* neighbours, in text (type) or value (fill); eval puts all its tokens,   *)
(* joined the same way, in text.  No token is dropped or reordered.        *)
C22_TrailingJoin ==
  \A p \in Solo :
    Parsed(p)
      => LET r == Result(p)
             v == Input(p).verb
             rest == Tail(Input(p).args)
         IN  /\ (v = "type" /\ Len(rest) >= 2)
                  => /\ r.ok /\ r.cmd.selector = Some(rest[1])
                     /\ IsSome(r.cmd.text) /\ IsSpaced(Tail(rest), r.cmd.text[1])
                     /\ r.cmd.value = None
             /\ (v = "fill" /\ Len(rest) >= 2)
                  => /\ r.ok /\ r.cmd.selector = Some(rest[1])
                     /\ IsSome(r.cmd.value) /\ IsSpaced(Tail(rest), r.cmd.value[1])
                     /\ r.cmd.text = None
             /\ (v \in {"eval", "evaluate"} /\ Len(rest) >= 1)
                  => /\ r.ok /\ r.cmd.selector = None
                     /\ IsSome(r.cmd.text) /\ IsSpaced(rest, r.cmd.text[1])

(* C22 witness: type #a b c gives the selector #a and the text "b c" *)
C22_Witness ==
  /\ Parsed(1) /\ Input(1).verb = "type"
  /\ Tail(Input(1).args) = <<SelA, <<"b">>, <<"c">>>>
  /\ Result(1).ok /\ Result(1).cmd.selector = Some(SelA)
  /\ Result(1).cmd.text = Some(<<"b", " ", "c">>)

(* C22 witness with an empty token and a token that holds a space: the     *)
(* text of eval #a "" "c d" b is "#a  c d b".                              *)
C22_WitnessEval ==
  /\ Parsed(1) /\ Input(1).verb = "eval"
  /\ Tail(Input(1).args) = <<SelA, <<>>, <<"c", " ", "d">>, <<"b">>>>
  /\ Result(1).ok
  /\ Result(1).cmd.text = Some(<<"#", "a", " ", " ", "c", " ", "d", " ", "b">>)

(***************************************************************************)
(* Properties of the serialized descriptor                                 *)
(***************************************************************************)
Encoded(p) == cli[p].pc \in {"encoded", "decoded"}
Wire(p) == cli[p].wire[1]
Keys(obj) == {obj[i].key : i \in 1..Len(obj)}
HasKey(obj, k) == k \in Keys(obj)

(* C23: the serialized descriptor always has the keys id and action, no    *)
(* key twice and no null; the key of an optional field is present exactly  *)
(* when the field was set, with the value it was set to.                   *)
C23_OmitUnset ==
  \A p \in Solo :
    Encoded(p)
      => LET c == Result(p).cmd
             w == Wire(p)
         IN  /\ HasKey(w, "id") /\ HasKey(w, "action")
             /\ Lookup(w, "id") = Some(c.id) /\ Lookup(w, "action") = Some(c.action)
             /\ \A i, j \in 1..Len(w) : w[i].key = w[j].key => i = j
             /\ \A i \in 1..Len(w) : w[i].val # None
             /\ HasKey(w, "url") <=> IsSome(c.url)
             /\ HasKey(w, "selector") <=> IsSome(c.selector)
             /\ HasKey(w, "text") <=> IsSome(c.text)
             /\ HasKey(w, "value") <=> IsSome(c.value)
             /\ HasKey(w, "key") <=> IsSome(c.key)
             /\ HasKey(w, "path") <=> IsSome(c.path)
             /\ HasKey(w, "interactive") <=> IsSome(c.interactive)
             /\ HasKey(w, "full_page") <=> IsSome(c.full_page)
             /\ HasKey(w, "timeout") <=> IsSome(c.timeout)
             /\ Len(w) <= 11

(* C23 witness: the descriptor of a click on #a is serialized with the     *)
(* three keys id, action, selector and nothing else.                       *)
C23_Witness ==
  /\ Encoded(1) /\ Input(1).verb = "click" /\ Tail(Input(1).args) = <<SelA>>
  /\ Input(1).flags.timeout = None
  /\ Keys(Wire(1)) = {"id", "action", "selector"} /\ Len(Wire(1)) = 3

(* C23 witness: a field set to the empty text is written, as the empty text *)
C23_WitnessEmpty ==
  /\ Encoded(1) /\ Input(1).verb = "click" /\ Tail(Input(1).args) = <<<<>>>>
  /\ Lookup(Wire(1), "selector") = Some(<<>>)

(* C24: decoding the serialized descriptor by the request schema gives     *)
(* back every field that was set, under its schema key and with its value, *)
(* and no field that was not set.                                          *)
C24_RoundTrip ==
  \A p \in Solo :
    cli[p].pc = "decoded"
      => LET c == Result(p).cmd
             b == cli[p].back[1]
         IN  /\ b.id = Some(c.id) /\ b.action = Some(c.action)
             /\ b.url = c.url /\ b.selector = c.selector /\ b.text = c.text
             /\ b.value = c.value /\ b.key = c.key /\ b.path = c.path
             /\ b.interactive = c.interactive
             /\ b.fullPage = c.full_page
             /\ b.timeout = c.timeout

(***************************************************************************)
(* Properties of switchpage                                                *)
(***************************************************************************)
(* The text t, after an optional '+', is decimal digits only *)
IsDigitText(t) ==
  LET body == IF t # <<>> /\ t[1] = "+" THEN Tail(t) ELSE t
  IN  body # <<>> /\ \A i \in 1..Len(body) : body[i] \in {Digits[d] : d \in 1..10}
(* The digits of t without sign and leading zeros *)
RECURSIVE Significant(_)
Significant(t) ==
  IF Len(t) > 1 /\ t[1] \in {"+", "0"} THEN Significant(Tail(t)) ELSE t
(* t names an index: a decimal number of at most 4294967295 *)
IsIndexText(t) ==
  /\ IsDigitText(t)
  /\ LET s == Significant(t)
         max == <<"4", "2", "9", "4", "9", "6", "7", "2", "9", "5">>
         val(c) == CHOOSE d \in 0..9 : Digits[d + 1] = c
     IN  \/ Len(s) < Len(max)
         \/ /\ Len(s) = Len(max)
            /\ \A i \in 1..Len(s) :
                 (\A j \in 1..(i - 1) : s[j] = max[j]) => val(s[i]) <= val(max[i])

(* C28: the descriptor of switchpage with an argument carries either the   *)
(* index, as the decimal text of the number in value and no url, when the  *)
(* argument is a number in the range of the index type, or else the        *)
(* argument itself in url and no value: exactly one of the two is set.     *)
C28_SwitchPage ==
  \A p \in Solo :
    (Parsed(p) /\ Input(p).verb = "switchpage" /\ Len(Input(p).args) >= 2)
      => LET r == Result(p)
             a == Input(p).args[2]
         IN  /\ r.ok /\ r.cmd.action = "switchPage"
             /\ IsSome(r.cmd.value) # IsSome(r.cmd.url)
             /\ IF IsIndexText(a)
                THEN r.cmd.value = Some(Significant(a)) /\ r.cmd.url = None
                ELSE r.cmd.url = Some(a) /\ r.cmd.value = None
             /\ r.cmd.selector = None /\ r.cmd.text = None /\ r.cmd.timeout = None

(* C28 witness: the largest index, 4294967295, is carried in value *)
C28_Witness ==
  /\ Parsed(1) /\ Input(1).verb = "switchpage"
  /\ Tail(Input(1).args) = <<<<"4", "2", "9", "4", "9", "6", "7", "2", "9", "5">>>>
  /\ Result(1).cmd.value = Some(<<"4", "2", "9", "4", "9", "6", "7", "2", "9", "5">>)
  /\ Result(1).cmd.url = None

(* C28 witness: 4294967296 is no index and is carried unchanged in url *)
C28_WitnessOverflow ==
  /\ Parsed(1) /\ Input(1).verb = "switchpage"
  /\ Tail(Input(1).args) = <<<<"4", "2", "9", "4", "9", "6", "7", "2", "9", "6">>>>
  /\ Result(1).cmd.url = Some(<<"4", "2", "9", "4", "9", "6", "7", "2", "9", "6">>)
  /\ Result(1).cmd.value = None

(* C28 witness: a selector-like argument is carried in url *)
C28_WitnessUrl ==
  /\ Parsed(1) /\ Input(1).verb = "switchpage" /\ Tail(Input(1).args) = <<SelA>>
  /\ Result(1).cmd.url = Some(SelA) /\ Result(1).cmd.value = None

(* C28 witness: +00 is the index 0 *)
C28_WitnessZero ==
  /\ Parsed(1) /\ Input(1).verb = "switchpage"
  /\ Tail(Input(1).args) = <<<<"+", "0", "0">>>>
  /\ Result(1).cmd.value = Some(<<"0">>) /\ Result(1).cmd.url = None

(***************************************************************************)
(* Properties of the dispatcher's command line                             *)
(***************************************************************************)
(* C27: the command line screenshot --full-page o.png, taken through main, *)
(* reaches ensure_daemon with a screenshot descriptor whose full-page flag *)
(* is true and whose path is o.png.                                        *)
C27_FullPageDispatch ==
  \A p \in Solo :
    (/\ IsSome(cli[p].inp)
     /\ cli[p].inp[1].line = <<Lit("screenshot"), Lit("--full-page"), OutPng>>
     /\ cli[p].pc \notin {"idle", "parsed", "encoded", "decoded"})
      => /\ cli[p].pc = "ensure"
         /\ cli[p].cmd.action = "screenshot"
         /\ cli[p].cmd.path = Some(OutPng)
         /\ cli[p].cmd.full_page = Some(TRUE)

(***************************************************************************)
(* Properties of the response                                              *)
(***************************************************************************)
(* The response the worker wrote as the line that send_command read *)
Sent(p) == cli[p].payload[1]
Returned(p) ==
  /\ cli[p].pc \in {"report", "exited"}
  /\ cli[p].readKind \in {"line", "partial_eof"}
  /\ IsSome(cli[p].payload) /\ Sent(p).wellFormed

(* C26: every well-formed response that send_command read is returned to   *)
(* the caller, with the id, success, result and error that the worker      *)
(* sent, whatever the relation between them and whatever the id.           *)
C26_PassThrough ==
  \A p \in AllProcs :
    Returned(p)
      => /\ cli[p].send = "ok"
         /\ cli[p].resp = Some([id |-> Sent(p).id, success |-> Sent(p).success,
                                result |-> Sent(p).result, error |-> Sent(p).error])

(* C26 witness: a response with success = true, an error, no result and an *)
(* id that is not the request's is returned as it is.                      *)
C26_Witness ==
  /\ Returned(1) /\ cli[1].send = "ok" /\ cli[1].cmd.id = "1"
  /\ cli[1].resp = Some([id |-> "2", success |-> TRUE, result |-> None,
                         error |-> Some("e")])

(* C26 witness: success = false with a result and an error *)
C26_WitnessBoth ==
  /\ Returned(1) /\ cli[1].send = "ok"
  /\ cli[1].resp = Some([id |-> "1", success |-> FALSE, result |-> Some("r"),
                         error |-> Some("e")])

(* C26 witness: success = true with neither result nor error *)
C26_WitnessNeither ==
  /\ Returned(1) /\ cli[1].send = "ok"
  /\ cli[1].resp = Some([id |-> "1", success |-> TRUE, result |-> None,
                         error |-> None])

(***************************************************************************)
(* Properties of the cleanup                                               *)
(***************************************************************************)
LiveWorkers == {w \in Pids : workers[w] \in Alive}

(* C29: a step of ensure_daemon that removes the socket file or the pid    *)
(* file is taken only when the pid file does not name a live process.      *)
C29_RemoveOnlyDead ==
  [][\A p \in AllProcs :
       (\/ cli[p].pc = "clean_sock" /\ cli'[p].pc = "clean_pid" /\ sock # 0 /\ sock' = 0
        \/ cli[p].pc = "clean_pid" /\ cli'[p].pc = "find"
             /\ pidFile.exists /\ ~pidFile'.exists)
         => ~PidFileNamesLive]_vars

(* C30: whenever an ensure_daemon has returned, with success or with the   *)
(* start-timeout, and no other is running, at most one worker of the       *)
(* session is alive.                                                       *)
C30_OneLiveWorker ==
  \A p \in Solo :
    cli[p].ensure \in {"already", "started", "timeout"}
      => Cardinality(LiveWorkers) <= 1

(***************************************************************************)
(* Properties of the lifecycle paths                                       *)
(***************************************************************************)
(* The file is an entry of the temporary directory itself *)
InTempDir(path) ==
  LET d == Denotes(path)
      t == Denotes(TempDir)
  IN  Len(d) = Len(t) + 1 /\ SubSeq(d, 1, Len(t)) = t

(* C25: whatever the session name, the socket path and the pid-file path   *)
(* denote files that lie in the temporary directory itself, not outside it *)
(* and not in a directory below it.                                        *)
C25_PathsInTempDir ==
  \A p \in Solo :
    cli[p].pc = "paths"
      => /\ InTempDir(cli[p].res[1].socketPath)
         /\ InTempDir(cli[p].res[1].pidFilePath)

(***************************************************************************)
(* Properties of two sessions                                              *)
(***************************************************************************)
(* The lifecycle files of the invocation's session: the path texts, and    *)
(* the files those paths denote.                                           *)
PathsOf(p) == {cli[p].res[1].socketPath, cli[p].res[1].pidFilePath}
FilesOf(p) == {Denotes(path) : path \in PathsOf(p)}

(* C31: two invocations whose session names differ have no lifecycle path  *)
(* in common, and the files that the one reads, removes or connects to     *)
(* (those its two paths denote) are none of the files of the other.        *)
C31_Isolated ==
  \A p \in AllProcs, q \in AllProcs :
    (/\ p # q /\ cli[p].pc = "paths" /\ cli[q].pc = "paths"
     /\ cli[p].res[1].session # cli[q].res[1].session)
      => /\ PathsOf(p) \cap PathsOf(q) = {}
         /\ FilesOf(p) \cap FilesOf(q) = {}
=============================================================================
